---- MODULE Spec2Model ----
(***************************************************************************)
(* simvue-cli: the local run-state cache (~/.simvue/cli_runs/<id>.json)    *)
(* and its reconciliation against the remote run, as implemented in        *)
(* src/src/simvue_cli/actions.py and driven by the commands of             *)
(* src/src/simvue_cli/cli/__init__.py.                                     *)
(*                                                                         *)
(* The remote service is the state `status` and `metrics` (its event log     *)
(* and metadata are never read back by the CLI and appear as the calls     *)
(* made); the disk is `cacheDir` and `cache`.  Every CLI invocation        *)
(* is one short-lived process, so one action is one whole handler.  A      *)
(* remote mutating call may fail (its `fail` input names the call that     *)
(* raises); a failed call changes nothing on the server.                   *)
(***************************************************************************)
EXTENDS Integers, Sequences, FiniteSets, TLC

\* ---- bounds of the model
MaxTime == 1        \* the wall clock runs over 0..MaxTime
MaxExternal == 2    \* samples another client records per run
MaxMetrics == 3     \* samples recorded per run
MaxRemove == 2      \* identifiers given to one 'run remove'
MaxEntries == 3     \* add_run calls on one PushAPI object
MaxBatch == 2       \* largest BATCH_RUN_LIMIT tried
MaxLines == 2       \* data lines 'monitor' reads
MaxSteps == 2       \* steps of a session configuration
MaxPushes == 1      \* push calls on one PushAPI object
MaxFile == 3        \* lines of the file a CSV parser tails
MaxHeaderIndex == 2 \* largest header_line_index tried
MaxTimeout == 2     \* largest 'ping --timeout' tried
MaxPings == 3       \* iterations of a 'ping' without timeout that are followed

\* the steps at which another client records samples
ExternalSteps == {3, 7}

\* the run identifiers whose remote record and cache file are tracked; runs
\* outside this set touch the tracked state only through CACHE_DIRECTORY
RunIds == {1}

\* ---- run status (the remote collaborator's enum; "none": unknown identifier)
ActiveStatuses == {"created", "running"}

\* every status the service knows
Statuses == {"created", "running", "completed", "failed", "lost", "terminated"}

\* the inactive statuses with "lost" forgotten
TerminalNoLost == {"terminated", "completed", "failed"}

\* the tuple tested by _check_run_exists
TerminalStatuses == {"lost", "terminated", "completed", "failed"}

\* the unlinking statuses with "terminated" forgotten
UnlinkNoTerminated == {"completed", "lost", "failed"}

\* the set tested by set_run_status before it unlinks the cache file
UnlinkStatuses == {"completed", "lost", "failed", "terminated"}

\* reason: str | None, an optional string
Reasons == {<<>>, <<"">>, <<"text">>}

\* Python truthiness of an optional string: None and "" are false
Truthy(reason) == reason # <<>> /\ reason[1] # ""

\* ---- cache files
NoFile == [kind |-> "absent", step |-> 0, start_time |-> 0]

\* a file that json.load rejects (empty, truncated, not JSON)
Corrupt == [kind |-> "corrupt", step |-> 0, start_time |-> 0]

Entry(step, start) == [kind |-> "json", step |-> step, start_time |-> start]

VARIABLES
    status,     \* remote: run id -> status, "none" when the service does not know it
    metrics,    \* remote: run id -> the set of recorded samples [step, time]
    cacheDir,   \* disk: CACHE_DIRECTORY exists
    cache,      \* disk: run id -> contents of <id>.json, NoFile when absent
    now,        \* wall clock, time.time()
    nextId,     \* next identifier the service hands out
    seen,       \* history: last status this CLI observed or set, per run
    streak,     \* history: consecutive log_metrics calls on one run
    last,       \* history: the last CLI operation, its inputs, calls and result
    procs,      \* CLI processes in flight: where each one stands in its handler
    began,      \* history: wall-clock time at which an active run's timing began
    push,       \* a PushAPI object and the runs its push has created
    conf,       \* disk: the configuration files
    wf,         \* a Workflow session
    csv,        \* a CSV parser tailing one file
    ping,       \* the 'ping' command's loop
    mon         \* the 'monitor' command

\* the state of the run commands
runvars == <<status, metrics, cacheDir, cache, now, nextId,
             seen, streak, last, procs, began>>

\* the state of the other commands
others == <<push, conf, wf, csv, ping, mon>>

vars == <<status, metrics, cacheDir, cache, now, nextId,
          seen, streak, last, procs, began, push, conf, wf, csv, ping, mon>>

\* ---- the other commands before anything is done with them
NoPush == [state |-> "off"]

\* a configuration file holds sections of keys; "" is a key that is not set
Sections == {"server", "run"}

Keys == {"url", "token"}

Values == {"a"}

EmptyConfig == [s \in Sections |-> [k \in Keys |-> ""]]

NoToml == [kind |-> "absent", data |-> EmptyConfig]

Toml(data) == [kind |-> "toml", data |-> data]

\* userdir: ~/.simvue exists for something else than the run cache; global:
\* ~/.simvue.toml; local: the simvue.toml of the working directory
NoConf == [userdir |-> FALSE, global |-> NoToml, local |-> NoToml]

NoWorkflow == [state |-> "off"]

NoCsv == [state |-> "off"]

NoPing == [state |-> "off"]

NoMonitor == [state |-> "off"]

OthersOff ==
    /\ push = NoPush
    /\ conf = NoConf
    /\ wf = NoWorkflow
    /\ csv = NoCsv
    /\ ping = NoPing
    /\ mon = NoMonitor

\* ---- helpers
SetMax(S) == CHOOSE x \in S : \A y \in S : y <= x

SetMin(S) == CHOOSE x \in S : \A y \in S : x <= y

Steps(ms) == {m.step : m \in ms}

Times(ms) == {m.time : m \in ms}

NoStreak == [run |-> 0, steps |-> <<>>, failed |-> FALSE]

NoOp == [op |-> "init", run |-> 0, status |-> "", reason |-> <<>>, running |-> FALSE,
         result |-> "", detail |-> "", calls |-> <<>>,
         ids |-> <<>>, keep |-> {}, gone |-> {}, at |-> 0,
         home |-> [dotdir |-> FALSE, global |-> NoToml, local |-> NoToml],
         opt |-> <<>>, file |-> "",
         was |-> [r \in RunIds |-> "none"],
         pre |-> [status |-> "none", metrics |-> {}, cache |-> NoFile, dir |-> FALSE],
         recon |-> NoFile, sample |-> <<>>]

Pre(r) == [status |-> status[r], metrics |-> metrics[r], cache |-> cache[r],
           dir |-> cacheDir]

\* the CLI processes that can be in flight at once
Procs == {1, 2}

\* a process slot: pc is the statement about to run ("idle": not started yet,
\* "done": the process has exited with res), before is the cache file when the
\* process started, run_data what it loaded, sent the steps it submitted, late
\* whether it submitted one to a run already terminal, orphan whether the file
\* it holds open for writing has been unlinked since, at the statement it
\* exited from
Idle == [pc |-> "idle", op |-> "", run |-> 0, s |-> "", reason |-> <<>>,
         before |-> NoFile, run_data |-> NoFile, sent |-> <<>>, late |-> FALSE,
         orphan |-> FALSE, res |-> "", at |-> ""]

\* nothing created, nothing cached
RunsInit ==
    /\ status = [r \in RunIds |-> "none"]
    /\ metrics = [r \in RunIds |-> {}]
    /\ cacheDir = FALSE
    /\ cache = [r \in RunIds |-> NoFile]
    /\ now = 0
    /\ nextId = 1
    /\ seen = [r \in RunIds |-> "none"]
    /\ streak = NoStreak
    /\ last = NoOp
    /\ procs = [p \in Procs |-> Idle]
    /\ began = [r \in RunIds |-> 0]

Init == RunsInit /\ OthersOff

\* ---- reconciliation: _check_run_exists

\* the entry written when the run has no cache file
synth_entry(ms, t) ==
    Entry(IF Steps(ms) # {} THEN SetMax(Steps(ms)) ELSE 0,
          IF Times(ms) # {} THEN SetMin(Times(ms)) ELSE t)

\* _check_run_exists without the unlink of its not-found branch
check_run_exists_keeps_unknown(r) ==
    IF status[r] = "none"
    THEN [res |-> "RunNotFound", detail |-> "", file |-> cache[r], seen |-> "none"]
    ELSE IF status[r] \in TerminalStatuses
    THEN [res |-> "RunInactive", detail |-> status[r], file |-> NoFile,
          seen |-> status[r]]
    ELSE IF cache[r].kind # "absent"
    THEN [res |-> "ok", detail |-> "", file |-> cache[r], seen |-> status[r]]
    ELSE IF ~cacheDir
    THEN [res |-> "FileNotFoundError", detail |-> "", file |-> NoFile,
          seen |-> status[r]]
    ELSE [res |-> "ok", detail |-> "", file |-> synth_entry(metrics[r], now),
          seen |-> status[r]]

\* _check_run_exists without the unlink of its inactive branch
check_run_exists_keeps_inactive(r) ==
    IF status[r] = "none"
    THEN [res |-> "RunNotFound", detail |-> "", file |-> NoFile, seen |-> "none"]
    ELSE IF status[r] \in TerminalStatuses
    THEN [res |-> "RunInactive", detail |-> status[r], file |-> cache[r],
          seen |-> status[r]]
    ELSE IF cache[r].kind # "absent"
    THEN [res |-> "ok", detail |-> "", file |-> cache[r], seen |-> status[r]]
    ELSE IF ~cacheDir
    THEN [res |-> "FileNotFoundError", detail |-> "", file |-> NoFile,
          seen |-> status[r]]
    ELSE [res |-> "ok", detail |-> "", file |-> synth_entry(metrics[r], now),
          seen |-> status[r]]

\* res: "ok" or the exception raised ("RunNotFound": ValueError "... does not
\* exist."; "RunInactive": ValueError "... status is '<detail>'."; the open() of
\* a file in a missing directory raises FileNotFoundError); file: <id>.json
\* when it returns or raises; seen: what the fetch told the CLI about the run
check_run_exists(r) ==
    IF status[r] = "none"
    THEN [res |-> "RunNotFound", detail |-> "", file |-> NoFile, seen |-> "none"]
    ELSE IF status[r] \in TerminalStatuses
    THEN [res |-> "RunInactive", detail |-> status[r], file |-> NoFile,
          seen |-> status[r]]
    ELSE IF cache[r].kind # "absent"
    THEN [res |-> "ok", detail |-> "", file |-> cache[r], seen |-> status[r]]
    ELSE IF ~cacheDir
    THEN [res |-> "FileNotFoundError", detail |-> "", file |-> NoFile,
          seen |-> status[r]]
    ELSE [res |-> "ok", detail |-> "", file |-> synth_entry(metrics[r], now),
          seen |-> status[r]]

\* the outcome of an action that stops after reconciliation
Base(r, chk) ==
    [res |-> chk.res, detail |-> chk.detail, file |-> chk.file, status |-> status[r],
     metrics |-> metrics[r],
     calls |-> <<>>, sample |-> <<>>, recon |-> chk.file, seen |-> chk.seen]

\* ---- the actions' outcomes, as functions of the state and the inputs

\* log_metrics writing the incremented step before the commit is known to
\* have succeeded
log_metrics_out_eager(r, fail) ==
    LET chk == check_run_exists(r)
        run_data == chk.file
        sample == [step |-> run_data.step, time |-> now - run_data.start_time]
        written == Entry(run_data.step + 1, run_data.start_time)
    IN  IF chk.res # "ok" THEN Base(r, chk)
        ELSE IF run_data.kind = "corrupt"
        THEN [Base(r, chk) EXCEPT !.res = "JSONDecodeError"]
        ELSE IF fail = "commit"
        THEN [Base(r, chk) EXCEPT !.res = "RemoteError", !.calls = <<"metrics">>,
                                  !.file = written]
        ELSE [Base(r, chk) EXCEPT
                !.metrics = metrics[r] \cup {sample},
                !.calls = <<"metrics">>,
                !.sample = <<sample>>,
                !.file = written]

log_metrics_out(r, fail) ==
    LET chk == check_run_exists(r)
        run_data == chk.file
        sample == [step |-> run_data.step, time |-> now - run_data.start_time]
    IN  IF chk.res # "ok" THEN Base(r, chk)
        ELSE IF run_data.kind = "corrupt"
        THEN [Base(r, chk) EXCEPT !.res = "JSONDecodeError"]
        ELSE IF fail = "commit"
        THEN [Base(r, chk) EXCEPT !.res = "RemoteError", !.calls = <<"metrics">>]
        ELSE [Base(r, chk) EXCEPT
                !.metrics = metrics[r] \cup {sample},
                !.calls = <<"metrics">>,
                !.sample = <<sample>>,
                !.file = Entry(run_data.step + 1, run_data.start_time)]

\* log_event advancing the step counter like log_metrics does
log_event_out_counts(r, fail) ==
    LET chk == check_run_exists(r)
    IN  IF chk.res # "ok" THEN Base(r, chk)
        ELSE IF fail = "commit"
        THEN [Base(r, chk) EXCEPT !.res = "RemoteError", !.calls = <<"events">>]
        ELSE [Base(r, chk) EXCEPT !.calls = <<"events">>,
                                  !.file = [chk.file EXCEPT !.step = @ + 1]]

log_event_out(r, fail) ==
    LET chk == check_run_exists(r)
    IN  IF chk.res # "ok" THEN Base(r, chk)
        ELSE IF fail = "commit"
        THEN [Base(r, chk) EXCEPT !.res = "RemoteError", !.calls = <<"events">>]
        ELSE [Base(r, chk) EXCEPT !.calls = <<"events">>]

\* update_metadata that sends the metadata whatever reconciliation said
update_metadata_out_unchecked(r, fail) ==
    LET chk == check_run_exists(r)
    IN  IF fail = "commit"
        THEN [Base(r, chk) EXCEPT !.res = "RemoteError", !.calls = <<"metadata">>]
        ELSE [Base(r, chk) EXCEPT !.calls = <<"metadata">>]

update_metadata_out(r, fail) ==
    LET chk == check_run_exists(r)
    IN  IF chk.res # "ok" THEN Base(r, chk)
        ELSE IF fail = "commit"
        THEN [Base(r, chk) EXCEPT !.res = "RemoteError", !.calls = <<"metadata">>]
        ELSE [Base(r, chk) EXCEPT !.calls = <<"metadata">>]

\* run.abort(reason): the service records the reason; whether it also moves
\* the run to "terminated" at once is the service's choice (eff)
AbortEffects == {"flagged", "terminated"}

abort_status(s, eff) == IF eff = "terminated" THEN "terminated" ELSE s

\* set_run_status that aborts instead of setting the status (abort or commit,
\* never both)
set_run_status_out_either(r, s, reason, fail, eff) ==
    LET chk == check_run_exists(r)
        doAbort == s = "terminated" /\ Truthy(reason)
    IN  IF chk.res # "ok" THEN Base(r, chk)
        ELSE IF doAbort
        THEN IF fail \in {"abort", "commit"}
             THEN [Base(r, chk) EXCEPT !.res = "RemoteError", !.calls = <<"abort">>]
             ELSE [Base(r, chk) EXCEPT
                     !.status = "terminated", !.seen = "terminated",
                     !.calls = <<"abort">>, !.file = NoFile]
        ELSE IF fail = "commit"
        THEN [Base(r, chk) EXCEPT !.res = "RemoteError", !.calls = <<"status">>]
        ELSE [Base(r, chk) EXCEPT
                !.status = s, !.seen = s, !.calls = <<"status">>,
                !.file = IF s \in UnlinkStatuses THEN NoFile ELSE chk.file]

set_run_status_out(r, s, reason, fail, eff) ==
    LET chk == check_run_exists(r)
        doAbort == s = "terminated" /\ Truthy(reason)
        c1 == IF doAbort THEN <<"abort">> ELSE <<>>
        s1 == IF doAbort THEN abort_status(status[r], eff) ELSE status[r]
    IN  IF chk.res # "ok" THEN Base(r, chk)
        ELSE IF doAbort /\ fail = "abort"
        THEN [Base(r, chk) EXCEPT !.res = "RemoteError", !.calls = c1]
        ELSE IF fail = "commit"
        THEN [Base(r, chk) EXCEPT !.res = "RemoteError", !.status = s1,
                                  !.seen = s1, !.calls = c1 \o <<"status">>]
        ELSE [Base(r, chk) EXCEPT
                !.status = s, !.seen = s, !.calls = c1 \o <<"status">>,
                !.file = IF s \in UnlinkStatuses THEN NoFile ELSE chk.file]

\* the remote calls of set_run_status that can be made to fail
StatusFailPoints(r, s, reason) ==
    IF check_run_exists(r).res # "ok" THEN {"none"}
    ELSE IF s = "terminated" /\ Truthy(reason) THEN {"none", "abort", "commit"}
    ELSE {"none", "commit"}

\* the effects of the abort call that can be told apart afterwards
StatusAbortEffects(r, s, reason, fail) ==
    IF check_run_exists(r).res = "ok" /\ s = "terminated" /\ Truthy(reason)
       /\ fail = "commit"
    THEN AbortEffects ELSE {"flagged"}

\* the reasons that can make a difference to set_run_status: `reason` is read
\* once, after reconciliation returned and only when status == "terminated"
ReasonsRead(r, s) ==
    IF check_run_exists(r).res # "ok" THEN {<<>>}
    ELSE IF s = "terminated" THEN Reasons
    ELSE {<<>>, <<"text">>}

FailPoints(r) ==
    IF check_run_exists(r).res # "ok" THEN {"none"} ELSE {"none", "commit"}

\* log_metrics reaches its commit only when json.load accepted the file
MetricsFailPoints(r) ==
    IF check_run_exists(r).file.kind = "corrupt" THEN {"none"} ELSE FailPoints(r)

\* ---- writing an outcome back
ApplyRun(op, r, s, reason, out) ==
    /\ status' = [status EXCEPT ![r] = out.status]
    /\ metrics' = [metrics EXCEPT ![r] = out.metrics]
    /\ cache' = [cache EXCEPT ![r] = out.file]
    /\ seen' = [seen EXCEPT ![r] = out.seen]
    /\ last' = [NoOp EXCEPT !.op = op, !.run = r, !.status = s, !.reason = reason,
                            !.result = out.res, !.detail = out.detail,
                            !.calls = out.calls, !.pre = Pre(r),
                            !.recon = out.recon, !.sample = out.sample]
    /\ began' = [began EXCEPT ![r] = IF out.status \in ActiveStatuses THEN @ ELSE 0]
    /\ UNCHANGED <<procs, cacheDir, now, nextId>>

\* the same for a command that is one call of an action
Apply(op, r, s, reason, out) ==
    ApplyRun(op, r, s, reason, out) /\ UNCHANGED others

\* ---- CLI actions

\* create_simvue_run writing the cache entry before the remote commit
create_simvue_run_cache_first(running, fail) ==
    /\ IF fail = "commit"
       THEN /\ nextId \in RunIds
            /\ last' = [NoOp EXCEPT !.op = "create_simvue_run", !.running = running,
                                    !.result = "RemoteError", !.calls = <<"create">>,
                                    !.pre = Pre(nextId)]
            /\ cacheDir' = TRUE
            /\ cache' = [cache EXCEPT ![nextId] = Entry(0, now)]
            /\ UNCHANGED <<others, status, metrics, nextId, seen, began>>
       ELSE IF nextId \notin RunIds
       THEN /\ ~cacheDir
            /\ cacheDir' = TRUE
            /\ last' = [NoOp EXCEPT !.op = "create_simvue_run", !.running = running,
                                    !.result = "ok", !.calls = <<"create">>]
            /\ UNCHANGED <<others, status, metrics, cache, nextId, seen, began>>
       ELSE LET id == nextId
                st == IF running THEN "running" ELSE "created"
            IN  /\ status' = [status EXCEPT ![id] = st]
                /\ cacheDir' = TRUE
                /\ cache' = [cache EXCEPT ![id] = Entry(0, now)]
                /\ seen' = [seen EXCEPT ![id] = st]
                /\ nextId' = nextId + 1
                /\ last' = [NoOp EXCEPT !.op = "create_simvue_run", !.run = id,
                                        !.running = running,
                                        !.status = st, !.result = "ok",
                                        !.calls = <<"create">>, !.pre = Pre(id),
                                        !.recon = Entry(0, now)]
                /\ began' = [began EXCEPT ![id] = now]
                /\ UNCHANGED <<others, metrics>>
    /\ streak' = NoStreak
    /\ UNCHANGED <<others, now, procs>>

\* a run outside RunIds is not tracked: creating one still creates
\* CACHE_DIRECTORY, and is left out when that changes nothing;
\* a failed commit raises before an identifier is known (last.run stays 0,
\* last.pre is the state of the identifier the service would have given)
create_simvue_run_call(running, fail) ==
    /\ IF fail = "commit"
       THEN /\ nextId \in RunIds
            /\ last' = [NoOp EXCEPT !.op = "create_simvue_run", !.running = running,
                                    !.result = "RemoteError", !.calls = <<"create">>,
                                    !.pre = Pre(nextId)]
            /\ UNCHANGED <<status, metrics, cacheDir, cache,
                           nextId, seen, began>>
       ELSE IF nextId \notin RunIds
       THEN /\ ~cacheDir
            /\ cacheDir' = TRUE
            /\ last' = [NoOp EXCEPT !.op = "create_simvue_run", !.running = running,
                                    !.result = "ok", !.calls = <<"create">>]
            /\ UNCHANGED <<status, metrics, cache, nextId, seen, began>>
       ELSE LET id == nextId
                st == IF running THEN "running" ELSE "created"
            IN  /\ status' = [status EXCEPT ![id] = st]
                /\ cacheDir' = TRUE
                /\ cache' = [cache EXCEPT ![id] = Entry(0, now)]
                /\ seen' = [seen EXCEPT ![id] = st]
                /\ nextId' = nextId + 1
                /\ last' = [NoOp EXCEPT !.op = "create_simvue_run", !.run = id,
                                        !.running = running,
                                        !.status = st, !.result = "ok",
                                        !.calls = <<"create">>, !.pre = Pre(id),
                                        !.recon = Entry(0, now)]
                /\ began' = [began EXCEPT ![id] = now]
                /\ UNCHANGED <<metrics>>
    /\ streak' = NoStreak
    /\ UNCHANGED <<now, procs>>

\* 'run create'
create_simvue_run(running, fail) ==
    create_simvue_run_call(running, fail) /\ UNCHANGED others

log_metrics_call(r, fail) ==
    LET out == log_metrics_out(r, fail)
        old == IF streak.run = r THEN streak ELSE NoStreak
        counted == streak.run = r
                   \/ (metrics[r] = {} /\ status[r] \in ActiveStatuses)
    IN  /\ fail \in MetricsFailPoints(r)
        /\ Cardinality(out.metrics) <= MaxMetrics
        /\ ApplyRun("log_metrics", r, "", <<>>, out)
        /\ streak' = IF counted /\ out.res # "RemoteError"
                     THEN [run |-> r,
                           steps |-> old.steps \o [i \in 1..Len(out.sample) |-> out.sample[i].step],
                           failed |-> old.failed \/ out.res # "ok"]
                     ELSE NoStreak

\* 'run log.metrics'
log_metrics(r, fail) ==
    log_metrics_call(r, fail) /\ UNCHANGED others

log_event(r, fail) ==
    LET out == log_event_out(r, fail)
    IN  /\ fail \in FailPoints(r)
        /\ Apply("log_event", r, "", <<>>, out)
        /\ streak' = NoStreak

update_metadata(r, fail) ==
    /\ fail \in FailPoints(r)
    /\ Apply("update_metadata", r, "", <<>>, update_metadata_out(r, fail))
    /\ streak' = NoStreak

set_run_status_call(r, s, reason, fail, eff) ==
    /\ reason \in ReasonsRead(r, s)
    /\ fail \in StatusFailPoints(r, s, reason)
    /\ eff \in StatusAbortEffects(r, s, reason, fail)
    /\ ApplyRun("set_run_status", r, s, reason,
                set_run_status_out(r, s, reason, fail, eff))
    /\ streak' = NoStreak

\* set_run_status called on its own
set_run_status(r, s, reason, fail, eff) ==
    set_run_status_call(r, s, reason, fail, eff) /\ UNCHANGED others

\* a command that stops at get_run: Run(identifier=run_id) raises for an
\* unknown identifier, before set_run_status is reached
GetRunFails(op, r, s, reason) ==
    /\ last' = [NoOp EXCEPT !.op = op, !.run = r, !.status = s, !.reason = reason,
                            !.result = "ObjectNotFoundError", !.pre = Pre(r),
                            !.recon = cache[r]]
    /\ seen' = [seen EXCEPT ![r] = "none"]
    /\ UNCHANGED <<others, procs, began, status, metrics, cacheDir, cache, now, nextId>>

\* 'run close': get_run, then set_run_status(run_id, "completed")
close_run(r, fail) ==
    /\ IF status[r] = "none"
       THEN fail = "none" /\ GetRunFails("close_run", r, "completed", <<>>)
       ELSE /\ fail \in StatusFailPoints(r, "completed", <<>>)
            /\ Apply("close_run", r, "completed", <<>>,
                     set_run_status_out(r, "completed", <<>>, fail, "flagged"))
    /\ streak' = NoStreak

\* 'run abort': get_run, then set_run_status(run_id, "terminated", reason=reason)
abort_run(r, reason, fail, eff) ==
    /\ reason # <<>>
    /\ IF status[r] = "none"
       THEN /\ fail = "none" /\ eff = "flagged"
            /\ GetRunFails("abort_run", r, "terminated", reason)
       ELSE /\ fail \in StatusFailPoints(r, "terminated", reason)
            /\ eff \in StatusAbortEffects(r, "terminated", reason, fail)
            /\ Apply("abort_run", r, "terminated", reason,
                     set_run_status_out(r, "terminated", reason, fail, eff))
    /\ streak' = NoStreak

\* actions.delete_run: get_run raises when the run is unknown, else Run.delete
delete_run(r, fail) ==
    LET found == status[r] # "none"
        done == found /\ fail = "none"
    IN  /\ fail \in (IF found THEN {"none", "commit"} ELSE {"none"})
        /\ status' = [status EXCEPT ![r] = IF done THEN "none" ELSE @]
        /\ metrics' = [metrics EXCEPT ![r] = IF done THEN {} ELSE @]
        /\ seen' = [seen EXCEPT ![r] = IF done THEN "none" ELSE @]
        /\ last' = [NoOp EXCEPT !.op = "delete_run", !.run = r, !.pre = Pre(r),
                       !.result = IF ~found THEN "ObjectNotFoundError"
                                  ELSE IF done THEN "ok" ELSE "RemoteError",
                       !.calls = IF found THEN <<"delete">> ELSE <<>>,
                       !.recon = cache[r]]
        /\ streak' = NoStreak
        /\ began' = [began EXCEPT ![r] = IF done THEN 0 ELSE @]
        /\ UNCHANGED <<others, procs, cacheDir, cache, now, nextId>>

\* the identifiers 'run remove' can be given: the runs, and one no run ever has
RemoveIds == RunIds \cup {0}

RemoveArgs == UNION {[1..n -> RemoveIds] : n \in 1..MaxRemove}

\* the loop of 'run remove' from argument i on, gone being the runs deleted so
\* far: get_run fails -> "Run ... not found" and sys.exit(1); a declined
\* confirmation -> continue; Run.delete fails -> the exception leaves the loop
RECURSIVE remove_from(_, _, _, _, _)
remove_from(ids, i, gone, keep, failAt) ==
    IF i > Len(ids) THEN [gone |-> gone, res |-> "ok", at |-> 0]
    ELSE IF ids[i] \notin RunIds \/ ids[i] \in gone \/ status[ids[i]] = "none"
    THEN [gone |-> gone, res |-> "NotFound", at |-> i]
    ELSE IF i \in keep THEN remove_from(ids, i + 1, gone, keep, failAt)
    ELSE IF failAt = i THEN [gone |-> gone, res |-> "RemoteError", at |-> i]
    ELSE remove_from(ids, i + 1, gone \cup {ids[i]}, keep, failAt)

\* 'run remove id...': keep is the arguments whose confirmation prompt is
\* declined (empty without --interactive), failAt the argument whose deletion
\* the server refuses (0: none)
run_remove(ids, keep, failAt) ==
    LET out == remove_from(ids, 1, {}, keep, failAt)
    IN  /\ status' = [r \in RunIds |-> IF r \in out.gone THEN "none" ELSE status[r]]
        /\ metrics' = [r \in RunIds |-> IF r \in out.gone THEN {} ELSE metrics[r]]
        /\ seen' = [r \in RunIds |-> IF r \in out.gone THEN "none" ELSE seen[r]]
        /\ began' = [r \in RunIds |-> IF r \in out.gone THEN 0 ELSE began[r]]
        /\ last' = [NoOp EXCEPT !.op = "run_remove", !.ids = ids, !.keep = keep,
                                !.gone = out.gone, !.at = out.at,
                                !.result = out.res, !.was = status]
        /\ streak' = NoStreak
        /\ UNCHANGED <<others, procs, cacheDir, cache, now, nextId>>

\* an exit code that reports an error message's cases as successes
exit_code_quiet(op, result) ==
    IF result = "ok" THEN 0
    ELSE IF op = "close_run" /\ result \in {"RunNotFound", "RunInactive"} THEN 0
    ELSE IF op = "run_remove" /\ result = "NotFound" THEN 0
    ELSE 1

\* the exit code of a command that ended with result: 0 when the command
\* function returns, 1 from sys.exit(1) in the handled cases, and 1 from the
\* interpreter when the exception is not handled
exit_code(op, result) ==
    IF result = "ok" THEN 0
    ELSE IF op = "close_run" /\ result \in {"RunNotFound", "RunInactive"} THEN 1
    ELSE IF op = "run_remove" /\ result = "NotFound" THEN 1
    ELSE 1

\* ~/.simvue exists: it holds the cache directory or something else
DotDir == cacheDir \/ conf.userdir

\* the files of the home and working directories a command finds
Home == [dotdir |-> DotDir, global |-> conf.global, local |-> conf.local]

\* 'purge' reporting on the directory alone
purge_simvue_message_for_directory ==
    LET local_files_exist == DotDir
    IN  /\ cacheDir' = FALSE
        /\ cache' = [r \in RunIds |-> NoFile]
        /\ conf' = [conf EXCEPT !.userdir = FALSE, !.global = NoToml]
        /\ last' = [NoOp EXCEPT !.op = "purge", !.result = "ok", !.home = Home,
                       !.detail = IF local_files_exist
                                  THEN "Simvue user files deleted successfully."
                                  ELSE "Nothing to do."]
        /\ streak' = NoStreak
        /\ UNCHANGED <<push, wf, csv, ping, mon, procs, began, status, metrics,
                       now, nextId, seen>>

\* 'purge': shutil.rmtree(~/.simvue) and ~/.simvue.toml unlinked, each when it
\* exists, then the message
purge_simvue ==
    LET local_files_exist == DotDir \/ conf.global.kind # "absent"
    IN  /\ cacheDir' = FALSE
        /\ cache' = [r \in RunIds |-> NoFile]
        /\ conf' = [conf EXCEPT !.userdir = FALSE, !.global = NoToml]
        /\ last' = [NoOp EXCEPT !.op = "purge", !.result = "ok", !.home = Home,
                       !.detail = IF local_files_exist
                                  THEN "Simvue user files deleted successfully."
                                  ELSE "Nothing to do."]
        /\ streak' = NoStreak
        /\ UNCHANGED <<push, wf, csv, ping, mon, procs, began, status, metrics,
                       now, nextId, seen>>

\* ---- the environment: other clients of the service, the user's shell, the clock

\* a run started through the SDK, not through this CLI
ExternalCreate(running) ==
    /\ nextId \in RunIds
    /\ status' = [status EXCEPT ![nextId] = IF running THEN "running" ELSE "created"]
    /\ nextId' = nextId + 1
    /\ last' = NoOp
    /\ streak' = NoStreak
    /\ began' = [began EXCEPT ![nextId] = now]
    /\ UNCHANGED <<others, procs, metrics, cacheDir, cache, now, seen>>

\* another client records a sample on an active run this CLI has not touched
\* yet (the design assumes a single writer once the CLI logs to a run)
ExternalLogMetric(r, step) ==
    /\ status[r] \in ActiveStatuses
    /\ seen[r] = "none"
    /\ Cardinality(metrics[r]) < MaxExternal
    /\ step \notin Steps(metrics[r])
    /\ metrics' = [metrics EXCEPT ![r] = @ \cup {[step |-> step, time |-> now]}]
    /\ last' = NoOp
    /\ streak' = NoStreak
    /\ UNCHANGED <<others, procs, began, status, cacheDir, cache, now, nextId, seen>>

\* another client, or the service's timeout, moves an active run on
ExternalSetStatus(r, s) ==
    /\ status[r] \in ActiveStatuses
    /\ s # status[r]
    /\ s # "created"
    /\ status' = [status EXCEPT ![r] = s]
    /\ last' = NoOp
    /\ streak' = NoStreak
    /\ began' = [began EXCEPT ![r] = IF s \in ActiveStatuses THEN @ ELSE 0]
    /\ UNCHANGED <<others, procs, metrics, cacheDir, cache, now, nextId, seen>>

\* the user removes <id>.json by hand
LoseCacheFile(r) ==
    /\ cache[r].kind # "absent"
    /\ cache' = [cache EXCEPT ![r] = NoFile]
    /\ last' = NoOp
    /\ streak' = NoStreak
    /\ UNCHANGED <<others, procs, began, status, metrics, cacheDir, now, nextId, seen>>

\* <id>.json is damaged: emptied, cut short or overwritten with other text
CorruptCacheFile(r) ==
    /\ cache[r].kind = "json"
    /\ cache' = [cache EXCEPT ![r] = Corrupt]
    /\ last' = NoOp
    /\ streak' = NoStreak
    /\ UNCHANGED <<others, procs, began, status, metrics, cacheDir, now, nextId, seen>>

Tick ==
    /\ now < MaxTime
    /\ now' = now + 1
    /\ last' = NoOp
    /\ UNCHANGED <<others, procs, began, status, metrics, cacheDir, cache, nextId,
                   seen, streak>>

\* the statuses set_run_status is asked for: the two its callers pass, and one
\* that is not inactive
RequestedStatuses == {"running", "completed", "terminated"}

\* the CLI's run commands, other clients of the service and the clock
NextOps ==
    \/ \E running \in BOOLEAN, fail \in {"none", "commit"} :
            create_simvue_run(running, fail)
    \/ \E r \in RunIds, fail \in {"none", "commit"} : log_metrics(r, fail)
    \/ \E r \in RunIds, fail \in {"none", "commit"} : log_event(r, fail)
    \/ \E r \in RunIds, fail \in {"none", "commit"} : update_metadata(r, fail)
    \/ \E r \in RunIds, s \in RequestedStatuses, reason \in Reasons,
          fail \in {"none", "abort", "commit"}, eff \in AbortEffects :
            set_run_status(r, s, reason, fail, eff)
    \/ \E r \in RunIds, fail \in {"none", "commit"} : close_run(r, fail)
    \/ \E r \in RunIds, reason \in Reasons, fail \in {"none", "abort", "commit"},
          eff \in AbortEffects : abort_run(r, reason, fail, eff)
    \/ \E r \in RunIds, fail \in {"none", "commit"} : delete_run(r, fail)
    \/ \E running \in BOOLEAN : ExternalCreate(running)
    \/ \E r \in RunIds, step \in ExternalSteps : ExternalLogMetric(r, step)
    \/ \E r \in RunIds, s \in Statuses : ExternalSetStatus(r, s)
    \/ Tick

Next ==
    \/ NextOps
    \/ purge_simvue
    \/ \E r \in RunIds : LoseCacheFile(r)

Spec == Init /\ [][Next]_vars

\* the same without 'purge' and without files removed by hand
SpecOps == Init /\ [][NextOps]_vars

\* the commands, with cache files that get damaged
NextCorrupt ==
    \/ NextOps
    \/ \E r \in RunIds : CorruptCacheFile(r)

SpecCorrupt == Init /\ [][NextCorrupt]_vars

\* the commands that create, close, abort and remove runs
NextCli ==
    \/ \E running \in BOOLEAN, fail \in {"none", "commit"} :
            create_simvue_run(running, fail)
    \/ \E r \in RunIds, fail \in {"none", "commit"} : close_run(r, fail)
    \/ \E r \in RunIds, reason \in Reasons, fail \in {"none", "abort", "commit"},
          eff \in AbortEffects : abort_run(r, reason, fail, eff)
    \/ \E ids \in RemoveArgs, keep \in SUBSET (1..MaxRemove), failAt \in 0..MaxRemove :
            /\ keep \subseteq DOMAIN ids
            /\ failAt \in (DOMAIN ids \ keep) \cup {0}
            /\ run_remove(ids, keep, failAt)
    \/ \E running \in BOOLEAN : ExternalCreate(running)
    \/ \E r \in RunIds, s \in Statuses : ExternalSetStatus(r, s)
    \/ \E r \in RunIds : LoseCacheFile(r)
    \/ purge_simvue

SpecCli == Init /\ [][NextCli]_vars

\* ---- the handlers statement by statement: processes of separate CLI
\* invocations share the service and the cache files, and nothing serializes
\* them.  A process may be killed between any two statements.

\* the reasons they give
RequestedReasons == {<<>>, <<"text">>}

Exit(p, res) == [procs EXCEPT ![p].pc = "done", ![p].res = res, ![p].at = procs[p].pc]

Goto(p, pc) == [procs EXCEPT ![p].pc = pc]

\* the file of run r has been unlinked (removed says so): a process inside
\* 'with open(run_shelf_file, "w")' keeps its handle, which no longer names
\* a file of the directory (POSIX unlink)
Unlinked(ps, r, removed) ==
    [q \in Procs |-> IF removed /\ ps[q].pc = "dump" /\ ps[q].run = r
                     THEN [ps[q] EXCEPT !.orphan = TRUE] ELSE ps[q]]

\* a new CLI process enters log_metrics(run_id, metrics)
start_log_metrics(p, r) ==
    /\ procs[p].pc = "idle"
    /\ status[r] # "none"
    /\ procs' = [procs EXCEPT ![p] = [Idle EXCEPT !.pc = "check", !.op = "log_metrics",
                                                  !.run = r, !.before = cache[r]]]
    /\ UNCHANGED <<others, status, metrics, cacheDir, cache, now, nextId, seen, streak, last, began>>

\* a new CLI process enters set_run_status(run_id, status, reason)
start_set_run_status(p, r, s, reason) ==
    /\ procs[p].pc = "idle"
    /\ status[r] # "none"
    /\ procs' = [procs EXCEPT ![p] = [Idle EXCEPT !.pc = "check", !.op = "set_run_status",
                                                  !.run = r, !.s = s, !.reason = reason,
                                                  !.before = cache[r]]]
    /\ UNCHANGED <<others, status, metrics, cacheDir, cache, now, nextId, seen, streak, last, began>>

\* run_shelf_file, run = _check_run_exists(run_id)
step_check_run_exists(p) ==
    LET r == procs[p].run
        chk == check_run_exists(r)
        after == IF procs[p].op = "log_metrics" THEN "load"
                 ELSE IF procs[p].s = "terminated" /\ Truthy(procs[p].reason) THEN "abort"
                 ELSE "status"
    IN  /\ procs[p].pc = "check"
        /\ cache' = [cache EXCEPT ![r] = chk.file]
        /\ seen' = [seen EXCEPT ![r] = chk.seen]
        /\ procs' = Unlinked(IF chk.res = "ok" THEN Goto(p, after) ELSE Exit(p, chk.res),
                             r, cache[r].kind # "absent" /\ chk.file.kind = "absent")
        /\ UNCHANGED <<others, status, metrics, cacheDir, now, nextId, streak, last, began>>

\* run_data = json.load(open(run_shelf_file))
step_json_load(p) ==
    LET r == procs[p].run
    IN  /\ procs[p].pc = "load"
        /\ procs' = IF cache[r].kind = "absent" THEN Exit(p, "FileNotFoundError")
                    ELSE IF cache[r].kind = "corrupt" THEN Exit(p, "JSONDecodeError")
                    ELSE [procs EXCEPT ![p].pc = "metrics", ![p].run_data = cache[r]]
        /\ UNCHANGED <<others, status, metrics, cacheDir, cache, now, nextId, seen, streak, last, began>>

\* the submission taking its step from the file as it is now, not from the
\* run_data loaded before
step_metrics_commit_fresh(p, fail) ==
    LET r == procs[p].run
        run_data == cache[r]
        sample == [step |-> run_data.step, time |-> now - run_data.start_time]
    IN  /\ procs[p].pc = "metrics"
        /\ IF fail
           THEN /\ procs' = Exit(p, "RemoteError")
                /\ UNCHANGED metrics
           ELSE /\ Cardinality(metrics[r] \cup {sample}) <= MaxMetrics
                /\ metrics' = [metrics EXCEPT ![r] = @ \cup {sample}]
                /\ procs' = [procs EXCEPT ![p].pc = "open",
                                          ![p].sent = @ \o <<sample.step>>]
        /\ UNCHANGED <<others, status, cacheDir, cache, now, nextId, seen, streak, last, began>>

\* _metrics = Metrics.new(...); _metrics.commit()
step_metrics_commit(p, fail) ==
    LET r == procs[p].run
        run_data == procs[p].run_data
        sample == [step |-> run_data.step, time |-> now - run_data.start_time]
    IN  /\ procs[p].pc = "metrics"
        /\ IF fail
           THEN /\ procs' = Exit(p, "RemoteError")
                /\ UNCHANGED metrics
           ELSE /\ Cardinality(metrics[r] \cup {sample}) <= MaxMetrics
                /\ metrics' = [metrics EXCEPT ![r] = @ \cup {sample}]
                /\ procs' = [procs EXCEPT ![p].pc = "open",
                                          ![p].sent = @ \o <<sample.step>>,
                                          ![p].late = status[r] \in TerminalStatuses]
        /\ UNCHANGED <<others, status, cacheDir, cache, now, nextId, seen, streak, last, began>>

\* with open(run_shelf_file, "w") as out_f: the file is created or truncated
step_open_w(p) ==
    LET r == procs[p].run
    IN  /\ procs[p].pc = "open"
        /\ IF cacheDir
           THEN /\ cache' = [cache EXCEPT ![r] = Corrupt]
                /\ procs' = Goto(p, "dump")
           ELSE /\ procs' = Exit(p, "FileNotFoundError")
                /\ UNCHANGED cache
        /\ UNCHANGED <<others, status, metrics, cacheDir, now, nextId, seen, streak, last, began>>

\* run_data["step"] += 1; json.dump(run_data, out_f, indent=2); the file is
\* closed and its contents reach the disk, unless the file was unlinked while
\* it was open: then they go to a file no path names any more
step_json_dump(p) ==
    LET r == procs[p].run
        run_data == procs[p].run_data
    IN  /\ procs[p].pc = "dump"
        /\ cache' = IF procs[p].orphan THEN cache
                    ELSE [cache EXCEPT ![r] = Entry(run_data.step + 1, run_data.start_time)]
        /\ procs' = Exit(p, "ok")
        /\ UNCHANGED <<others, status, metrics, cacheDir, now, nextId, seen, streak, last, began>>

\* run.abort(reason)
step_abort(p, fail, eff) ==
    LET r == procs[p].run
    IN  /\ procs[p].pc = "abort"
        /\ IF fail
           THEN /\ eff = "flagged"
                /\ procs' = Exit(p, "RemoteError")
                /\ UNCHANGED <<others, status, seen>>
           ELSE /\ status' = [status EXCEPT ![r] = abort_status(@, eff)]
                /\ seen' = [seen EXCEPT ![r] = abort_status(status[r], eff)]
                /\ procs' = Goto(p, "status")
        /\ UNCHANGED <<others, metrics, cacheDir, cache, now, nextId, streak, last, began>>

\* run.status = status; run.commit()
step_status_commit(p, fail) ==
    LET r == procs[p].run
        s == procs[p].s
    IN  /\ procs[p].pc = "status"
        /\ IF fail
           THEN /\ procs' = Exit(p, "RemoteError")
                /\ UNCHANGED <<others, status, seen>>
           ELSE /\ status' = [status EXCEPT ![r] = s]
                /\ seen' = [seen EXCEPT ![r] = s]
                /\ procs' = IF s \in UnlinkStatuses THEN Goto(p, "unlink")
                            ELSE Exit(p, "ok")
        /\ UNCHANGED <<others, metrics, cacheDir, cache, now, nextId, streak, last, began>>

\* run_shelf_file.unlink(): pathlib raises FileNotFoundError for a missing file
step_unlink(p) ==
    LET r == procs[p].run
    IN  /\ procs[p].pc = "unlink"
        /\ IF cache[r].kind = "absent"
           THEN /\ procs' = Exit(p, "FileNotFoundError")
                /\ UNCHANGED cache
           ELSE /\ cache' = [cache EXCEPT ![r] = NoFile]
                /\ procs' = Unlinked(Exit(p, "ok"), r, TRUE)
        /\ UNCHANGED <<others, status, metrics, cacheDir, now, nextId, seen, streak, last, began>>

\* the process is killed before its next statement
Kill(p) ==
    /\ procs[p].pc \notin {"idle", "done"}
    /\ procs' = Exit(p, "killed")
    /\ UNCHANGED <<others, status, metrics, cacheDir, cache, now, nextId, seen, streak, last, began>>

\* no process of the concurrent phase has started
AllIdle == \A p \in Procs : procs[p].pc = "idle"

\* 'run create' and earlier log_metrics invocations one after the other, then
\* one log_metrics or set_run_status process per slot, interleaved
NextProc ==
    \/ \E running \in BOOLEAN : create_simvue_run(running, "none")
    \/ \E r \in RunIds : AllIdle /\ log_metrics(r, "none")
    \/ \E p \in Procs, r \in RunIds : start_log_metrics(p, r)
    \/ \E p \in Procs, r \in RunIds, s \in RequestedStatuses,
          reason \in RequestedReasons : start_set_run_status(p, r, s, reason)
    \/ \E p \in Procs : step_check_run_exists(p)
    \/ \E p \in Procs : step_json_load(p)
    \/ \E p \in Procs, fail \in BOOLEAN : step_metrics_commit(p, fail)
    \/ \E p \in Procs : step_open_w(p)
    \/ \E p \in Procs : step_json_dump(p)
    \/ \E p \in Procs, fail \in BOOLEAN, eff \in AbortEffects : step_abort(p, fail, eff)
    \/ \E p \in Procs, fail \in BOOLEAN : step_status_commit(p, fail)
    \/ \E p \in Procs : step_unlink(p)
    \/ \E p \in Procs : Kill(p)

SpecProc == Init /\ [][NextProc]_vars

\* ---- push: PushAPI.add_run and PushAPI.push (push/core.py)

\* the metrics argument of add_run: None, an empty list, or a list of values
MetricArgs == {<<>>, <<"a">>, <<"a", "b">>}

RunNames == {"x"}

\* the MetricSet list add_run builds: the step defaults to the position
MetricSets(ms) == [i \in DOMAIN ms |-> [step |-> i - 1, values |-> ms[i]]]

\* a PushAPI object: data is _data["run"], run_metrics is _run_metrics (keyed
\* from 0), remote is the runs the service holds, in the order it created
\* them; given (what each add_run call was handed), created (the ids the
\* last push got back), batches (the sizes of its batch_create calls) and res
\* (how the last push ended, "" once add_run is called again) are history
NewPush(limit) ==
    [state |-> "open", limit |-> limit, data |-> <<>>, run_metrics |-> <<>>,
     remote |-> <<>>, given |-> <<>>, created |-> <<>>, batches |-> <<>>,
     pushes |-> 0, res |-> ""]

\* more_itertools.chunked(data, n)
RECURSIVE chunked(_, _)
chunked(data, n) ==
    IF data = <<>> THEN <<>>
    ELSE IF Len(data) <= n THEN <<data>>
    ELSE <<SubSeq(data, 1, n)>> \o chunked(SubSeq(data, n + 1, Len(data)), n)

\* Run.batch_create(entries): one run per entry, in order
batch_create(remote, entries) ==
    remote \o [k \in DOMAIN entries |-> [entry |-> entries[k], metrics |-> <<>>]]

\* the index counting anew in every chunk
run_index_per_chunk(yielded, j) == j - 1

\* enumerate(_queue_generator()): the index of the j-th id of a chunk, yielded
\* ids having come out of the chunks before it
run_index(yielded, j) == yielded + j - 1

\* the ids of one chunk from the j-th on: Metrics.new(run=_id, ...).commit()
\* for an index that has metrics; failAt is the index whose commit fails (-1: none)
RECURSIVE commit_chunk(_, _, _, _, _, _, _)
commit_chunk(remote, first, size, j, yielded, run_metrics, failAt) ==
    IF j > size THEN [remote |-> remote, res |-> "ok"]
    ELSE LET i == run_index(yielded, j)
             id == first + j - 1
         IN  IF i \in DOMAIN run_metrics
             THEN IF failAt = i THEN [remote |-> remote, res |-> "RemoteError"]
                  ELSE commit_chunk([remote EXCEPT ![id].metrics = @ \o run_metrics[i]],
                                    first, size, j + 1, yielded, run_metrics, failAt)
             ELSE commit_chunk(remote, first, size, j + 1, yielded, run_metrics, failAt)

\* the loop of push from chunk c on: the generator creates a chunk's runs when
\* its first id is asked for
RECURSIVE push_from(_, _, _, _, _, _, _, _)
push_from(chunks, c, remote, yielded, created, batches, run_metrics, failAt) ==
    IF c > Len(chunks)
    THEN [remote |-> remote, created |-> created, batches |-> batches, res |-> "ok"]
    ELSE LET size == Len(chunks[c])
             made == batch_create(remote, chunks[c])
             ids == [k \in 1..size |-> Len(remote) + k]
             out == commit_chunk(made, Len(remote) + 1, size, 1, yielded,
                                 run_metrics, failAt)
         IN  IF out.res # "ok"
             THEN [remote |-> out.remote, created |-> created \o ids,
                   batches |-> Append(batches, size), res |-> out.res]
             ELSE push_from(chunks, c + 1, out.remote, yielded + size,
                            created \o ids, Append(batches, size),
                            run_metrics, failAt)

\* PushAPI(): a new object (BATCH_RUN_LIMIT is a module constant; limit stands for it)
push_new(limit) ==
    /\ push.state = "off"
    /\ push' = NewPush(limit)
    /\ UNCHANGED <<runvars, conf, wf, csv, ping, mon>>

\* add_run(folder=..., name=..., metrics=...)
add_run(name, ms) ==
    /\ push.state = "open"
    /\ Len(push.data) < MaxEntries
    /\ LET index == Len(push.data)
       IN  push' = [push EXCEPT
                       !.data = Append(@, [name |-> name, call |-> index + 1]),
                       !.run_metrics = IF ms # <<>>
                                       THEN [i \in DOMAIN @ \cup {index} |->
                                               IF i = index THEN MetricSets(ms) ELSE @[i]]
                                       ELSE @,
                       !.given = Append(@, ms), !.res = ""]
    /\ UNCHANGED <<runvars, conf, wf, csv, ping, mon>>

\* push()
push_runs(failAt) ==
    /\ push.state = "open"
    /\ push.pushes < MaxPushes
    /\ failAt \in DOMAIN push.run_metrics \cup {-1}
    /\ LET out == push_from(chunked(push.data, push.limit), 1, push.remote, 0,
                            <<>>, <<>>, push.run_metrics, failAt)
       IN  push' = [push EXCEPT !.remote = out.remote, !.created = out.created,
                                !.batches = out.batches, !.res = out.res,
                                !.pushes = @ + 1]
    /\ UNCHANGED <<runvars, conf, wf, csv, ping, mon>>

NextPush ==
    \/ \E limit \in 1..MaxBatch : push_new(limit)
    \/ \E name \in RunNames, ms \in MetricArgs : add_run(name, ms)
    \/ \E failAt \in -1..(MaxEntries - 1) : push_runs(failAt)

SpecPush == Init /\ [][NextPush]_vars

\* ---- configuration files: set_configuration_option (config.py)

\* the local argument: True, False or None
LocalArgs == {"true", "false", "none"}

\* SimvueConfiguration.fetch(mode="offline").config_file(): the first file
\* found, the working directory before the home directory; found is what the
\* library answers when there is neither ("local": the path in the working
\* directory, "missing": FileNotFoundError)
first_config_file(found) ==
    IF conf.local.kind = "toml" THEN "local"
    ELSE IF conf.global.kind = "toml" THEN "global"
    ELSE found

\* set_configuration_option starting the section afresh
set_option_out_new_section(section, key, value, local, found) ==
    LET first == first_config_file(found)
        file == IF local \in {"true", "none"} THEN first ELSE "global"
        old == IF file = "local" THEN conf.local ELSE conf.global
        config == IF old.kind = "toml" THEN old.data ELSE EmptyConfig
    IN  IF first = "missing"
        THEN [res |-> "FileNotFoundError", file |-> "", data |-> EmptyConfig]
        ELSE IF local = "true" /\ first = "global"
        THEN [res |-> "ValueError", file |-> "", data |-> EmptyConfig]
        ELSE [res |-> "ok", file |-> file,
              data |-> [config EXCEPT ![section] = [EmptyConfig[section] EXCEPT ![key] = value]]]

\* the outcome of set_configuration_option: res, the file chosen and the
\* contents written to it (a section that is missing or empty is started as
\* {} before the key is set)
set_option_out(section, key, value, local, found) ==
    LET first == first_config_file(found)
        file == IF local \in {"true", "none"} THEN first ELSE "global"
        old == IF file = "local" THEN conf.local ELSE conf.global
        config == IF old.kind = "toml" THEN old.data ELSE EmptyConfig
    IN  IF first = "missing"
        THEN [res |-> "FileNotFoundError", file |-> "", data |-> EmptyConfig]
        ELSE IF local = "true" /\ first = "global"
        THEN [res |-> "ValueError", file |-> "", data |-> EmptyConfig]
        ELSE [res |-> "ok", file |-> file,
              data |-> [config EXCEPT ![section][key] = value]]

\* set_configuration_option(section, key, value, local)
set_configuration_option(section, key, value, local, found) ==
    LET out == set_option_out(section, key, value, local, found)
    IN  /\ found \in (IF conf.local.kind = "toml" \/ conf.global.kind = "toml"
                      THEN {"local"} ELSE {"local", "missing"})
        /\ conf' = IF out.res # "ok" THEN conf
                   ELSE IF out.file = "local"
                   THEN [conf EXCEPT !.local = Toml(out.data)]
                   ELSE [conf EXCEPT !.global = Toml(out.data)]
        /\ last' = [NoOp EXCEPT !.op = "set_configuration_option", !.home = Home,
                                !.opt = <<section, key, value, local>>,
                                !.file = out.file, !.result = out.res]
        /\ streak' = NoStreak
        /\ UNCHANGED <<push, wf, csv, ping, mon, procs, began, status, metrics,
                       cacheDir, cache, now, nextId, seen>>

\* the simvue library makes ~/.simvue for its own files
ExternalMkdir ==
    /\ ~conf.userdir
    /\ conf' = [conf EXCEPT !.userdir = TRUE]
    /\ last' = NoOp
    /\ streak' = NoStreak
    /\ UNCHANGED <<push, wf, csv, ping, mon, procs, began, status, metrics,
                   cacheDir, cache, now, nextId, seen>>

\* the user deletes the configuration file of the working directory
ExternalRemoveLocal ==
    /\ conf.local.kind = "toml"
    /\ conf' = [conf EXCEPT !.local = NoToml]
    /\ last' = NoOp
    /\ streak' = NoStreak
    /\ UNCHANGED <<push, wf, csv, ping, mon, procs, began, status, metrics,
                   cacheDir, cache, now, nextId, seen>>

\* the commands that touch the home directory
NextHome ==
    \/ \E section \in Sections, key \in Keys, value \in Values, local \in LocalArgs,
          found \in {"local", "missing"} :
            set_configuration_option(section, key, value, local, found)
    \/ \E running \in BOOLEAN : create_simvue_run(running, "none")
    \/ purge_simvue
    \/ ExternalMkdir
    \/ ExternalRemoveLocal

SpecHome == Init /\ [][NextHome]_vars

\* ---- sessions: Workflow.play and Workflow._execute (session/workflow.py)

\* a step is a plain command or a Simulation; inputs and outputs say whether
\* files are declared and, if so, whether all of them exist
StepKinds == {"plain", "sim"}

FileStates == {"none", "missing", "present"}

StepConfigs == [kind : StepKinds, inputs : FileStates, outputs : FileStates]

SessionConfigs == UNION {[1..n -> StepConfigs] : n \in 1..MaxSteps}

\* _return_code before the step has run: None
NoCode == -1

ReturnCodes == {0, 1}

\* Step.status with "Waiting" for a step without inputs replaced by "Completed"
step_status_no_inputs_complete(step, code) ==
    IF code \notin {NoCode, 0} THEN "Failed"
    ELSE IF step.inputs = "none" THEN "Completed"
    ELSE IF step.inputs = "missing" THEN "Waiting"
    ELSE IF step.outputs = "missing" THEN "Ready"
    ELSE "Completed"

\* Step.status
step_status(step, code) ==
    IF code \notin {NoCode, 0} THEN "Failed"
    ELSE IF step.inputs = "none" THEN "Waiting"
    ELSE IF step.inputs = "missing" THEN "Waiting"
    ELSE IF step.outputs = "missing" THEN "Ready"
    ELSE "Completed"

\* a session being played: i is the step play has reached, pc where it stands
\* ("execute": about to call _execute, "running": the step's process is
\* running, "yielded": the step is with the caller, "done": play has ended
\* with res); log is the history of what was done to the steps
NewWorkflow(steps) ==
    [state |-> "play", steps |-> steps, code |-> [k \in DOMAIN steps |-> NoCode],
     i |-> 1, pc |-> "execute", res |-> "", log |-> <<>>]

Event(ev, w) ==
    [ev |-> ev, step |-> w.i, inputs |-> w.steps[w.i].inputs,
     outputs |-> w.steps[w.i].outputs, code |-> w.code[w.i]]

\* Workflow.from_file(...).play(), up to the first step
play(steps) ==
    /\ wf.state = "off"
    /\ wf' = NewWorkflow(steps)
    /\ UNCHANGED <<runvars, push, conf, csv, ping, mon>>

\* _execute up to the start of the step's process: a step waiting for inputs
\* raises RuntimeError, a completed one is returned as it is, any other is
\* started (started = FALSE: the process cannot be started, Popen or
\* simvue.Run raises)
execute(started) ==
    /\ wf.state = "play"
    /\ wf.pc = "execute"
    /\ LET step == wf.steps[wf.i]
           st == step_status(step, wf.code[wf.i])
       IN  IF st = "Waiting" /\ step.inputs # "none"
           THEN /\ started
                /\ wf' = [wf EXCEPT !.pc = "done", !.res = "RuntimeError",
                                    !.log = Append(@, Event("raise", wf))]
           ELSE IF st = "Completed"
           THEN /\ started
                /\ wf' = [wf EXCEPT !.pc = "yielded",
                                    !.log = Append(@, Event("skip", wf))]
           ELSE IF started
           THEN wf' = [wf EXCEPT !.pc = "running",
                                 !.log = Append(@, Event("spawn", wf))]
           ELSE wf' = [wf EXCEPT !.pc = "done", !.res = "OSError",
                                 !.log = Append(@, Event("nospawn", wf))]
    /\ UNCHANGED <<runvars, push, conf, csv, ping, mon>>

\* the step's process ends and the step is returned whatever its code
finish_always_yields(code) ==
    /\ wf.state = "play"
    /\ wf.pc = "running"
    /\ LET w == [wf EXCEPT !.code[wf.i] = code]
       IN  wf' = [w EXCEPT !.pc = "yielded",
                          !.log = Append(Append(@, Event("exit", w)), Event("yield", w))]
    /\ UNCHANGED <<runvars, push, conf, csv, ping, mon>>

\* the step's process ends with code: a plain command that failed raises
\* SessionAbort, which ends play; a Simulation is returned whatever its code
finish(code) ==
    /\ wf.state = "play"
    /\ wf.pc = "running"
    /\ LET w == [wf EXCEPT !.code[wf.i] = code]
       IN  wf' = IF wf.steps[wf.i].kind = "plain" /\ code # 0
                 THEN [w EXCEPT !.pc = "done", !.res = "SessionAbort",
                                !.log = Append(@, Event("exit", w))]
                 ELSE [w EXCEPT !.pc = "yielded",
                                !.log = Append(Append(@, Event("exit", w)),
                                               Event("yield", w))]
    /\ UNCHANGED <<runvars, push, conf, csv, ping, mon>>

\* the caller asks for the next step
resume ==
    /\ wf.state = "play"
    /\ wf.pc = "yielded"
    /\ wf' = IF wf.i < Len(wf.steps)
             THEN [wf EXCEPT !.i = @ + 1, !.pc = "execute"]
             ELSE [wf EXCEPT !.pc = "done", !.res = "finished"]
    /\ UNCHANGED <<runvars, push, conf, csv, ping, mon>>

\* files appear while the session runs: the outputs of the running step, or
\* the inputs of a step that has not been reached
FilesAppear(k, what) ==
    /\ wf.state = "play"
    /\ wf.pc # "done"
    /\ k \in DOMAIN wf.steps
    /\ \/ what = "outputs" /\ k = wf.i /\ wf.pc = "running"
       \/ what = "inputs" /\ k > wf.i
    /\ wf.steps[k][what] = "missing"
    /\ wf' = [wf EXCEPT !.steps[k][what] = "present"]
    /\ UNCHANGED <<runvars, push, conf, csv, ping, mon>>

NextWorkflow ==
    \/ \E steps \in SessionConfigs : play(steps)
    \/ \E started \in BOOLEAN : execute(started)
    \/ \E code \in ReturnCodes : finish(code)
    \/ resume
    \/ \E k \in 1..MaxSteps, what \in {"inputs", "outputs"} : FilesAppear(k, what)

SpecWorkflow == Init /\ [][NextWorkflow]_vars

\* ---- 'monitor': a run fed from standard input (cli/__init__.py)

\* the command between two lines of input: run is the run it created, lines
\* the lines read so far (the first is the header); once it has exited, how
\* says why ("nocreate": create_simvue_run raised, "failed": a line could not
\* be logged, "eof", "interrupt") and res how the last action it called ended
Monitoring(r) == [state |-> "reading", run |-> r, lines |-> 0, how |-> "", res |-> ""]

\* monitor up to the loop: create_simvue_run(timeout=None, running=True, ...)
monitor(fail) ==
    /\ mon.state = "off"
    /\ nextId \in RunIds
    /\ create_simvue_run_call(TRUE, fail)
    /\ mon' = IF fail = "none" THEN Monitoring(nextId)
              ELSE [Monitoring(0) EXCEPT !.state = "exited", !.how = "nocreate",
                                         !.res = "RemoteError"]
    /\ UNCHANGED <<push, conf, wf, csv, ping>>

\* the header line: the metric labels
monitor_header ==
    /\ mon.state = "reading"
    /\ mon.lines = 0
    /\ mon' = [mon EXCEPT !.lines = 1]
    /\ UNCHANGED <<runvars, push, conf, wf, csv, ping>>

\* a data line that float() rejects: the ValueError is caught, sys.exit(1)
monitor_bad_line ==
    /\ mon.state = "reading"
    /\ mon.lines \in 1..MaxLines
    /\ mon' = [mon EXCEPT !.lines = @ + 1, !.state = "exited", !.how = "failed",
                          !.res = "ValueError"]
    /\ UNCHANGED <<runvars, push, conf, wf, csv, ping>>

\* a data line of numbers: log_metrics(run.id, ...); an exception ends the
\* command (sys.exit(1) when it is caught, a traceback when it is not)
monitor_line(fail) ==
    /\ mon.state = "reading"
    /\ mon.lines \in 1..MaxLines
    /\ log_metrics_call(mon.run, fail)
    /\ LET res == log_metrics_out(mon.run, fail).res
       IN  mon' = IF res = "ok" THEN [mon EXCEPT !.lines = @ + 1, !.res = res]
                  ELSE [mon EXCEPT !.lines = @ + 1, !.state = "exited",
                                   !.how = "failed", !.res = res]
    /\ UNCHANGED <<push, conf, wf, csv, ping>>

\* end of input: the run id is printed, then set_run_status(run.id, "completed")
monitor_eof(fail) ==
    /\ mon.state = "reading"
    /\ set_run_status_call(mon.run, "completed", <<>>, fail, "flagged")
    /\ mon' = [mon EXCEPT !.state = "exited", !.how = "eof",
                          !.res = set_run_status_out(mon.run, "completed", <<>>,
                                                     fail, "flagged").res]
    /\ UNCHANGED <<push, conf, wf, csv, ping>>

\* KeyboardInterrupt between two lines: set_run_status(run.id, "terminated"),
\* then click.Abort
monitor_interrupt(fail) ==
    /\ mon.state = "reading"
    /\ set_run_status_call(mon.run, "terminated", <<>>, fail, "flagged")
    /\ mon' = [mon EXCEPT !.state = "exited", !.how = "interrupt",
                          !.res = set_run_status_out(mon.run, "terminated", <<>>,
                                                     fail, "flagged").res]
    /\ UNCHANGED <<push, conf, wf, csv, ping>>

\* 'monitor' and what happens to its run meanwhile
NextMonitor ==
    \/ \E fail \in {"none", "commit"} : monitor(fail)
    \/ monitor_header
    \/ monitor_bad_line
    \/ \E fail \in {"none", "commit"} : monitor_line(fail)
    \/ \E fail \in {"none", "commit"} : monitor_eof(fail)
    \/ \E fail \in {"none", "commit"} : monitor_interrupt(fail)
    \/ \E r \in RunIds, s \in Statuses : ExternalSetStatus(r, s)
    \/ \E r \in RunIds : LoseCacheFile(r)
    \/ Tick

SpecMonitor == Init /\ [][NextMonitor]_vars

\* ---- CSV._parse_log (session/config/parsing/csv.py)

\* header_line_index = None and headers given by hand
NoIndex == -1
Manual == -1
\* _cache["headers"] = None
NoHeaders == -2

\* the configurations: header_line_index with the headers read from the file,
\* or no header line and headers given by hand
HeaderIndexes == (0..MaxHeaderIndex) \cup {NoIndex}

\* a line of the file: n its position from 0, text what it is ("junk" before
\* the header line, "header", "data", "" for an empty line), m whether
\* re.match(pattern, line) succeeds
Line(n, text, m) == [n |-> n, text |-> text, m |-> m]

\* the last element of split("\n") when file_content ends with a newline
EmptyLine == Line(-1, "", FALSE)

LinesAt(H, i, pattern) ==
    LET ms == IF pattern THEN BOOLEAN ELSE {TRUE}
    IN  IF i < H THEN {Line(i, "junk", TRUE)}
        ELSE IF i = H THEN {Line(i, "header", m) : m \in ms}
        ELSE {Line(i, "data", m) : m \in ms} \cup {Line(i, "", FALSE)}

\* the files of N lines laid out as header_line_index H says
RECURSIVE FilesOf(_, _, _)
FilesOf(H, pattern, N) ==
    IF N = 0 THEN {<<>>}
    ELSE {Append(f, l) : f \in FilesOf(H, pattern, N - 1), l \in LinesAt(H, N - 1, pattern)}

\* _lines[k:]
Slice(lines, k) == IF k >= Len(lines) THEN <<>> ELSE SubSeq(lines, k + 1, Len(lines))

\* csv.DictReader(_lines): the first line gives the fieldnames, an empty one
\* gives []; every later line that is not empty is a row
DictReader(lines) ==
    [fieldnames |-> lines[1],
     rows |-> SelectSeq(Tail(lines), LAMBDA l : l.text # "")]

\* a record: line is the line its values come from, keys the line its keys
\* come from (Manual: the headers given by hand); whole is TRUE when the
\* fieldnames were [] and the row is one list under the first header
Record(l, keys, whole) == [line |-> l.n, keys |-> keys, whole |-> whole]

\* CSV._parse_log(file_content) on the parser c, _lines being
\* file_content.split("\n"): the new _cache and what is returned
parse_log_out(c, lines) ==
    LET H == c.header_line_index
        skip == H > 0 /\ c.log_index < H
        cut == IF skip THEN Slice(lines, H) ELSE lines
        kept == IF c.pattern THEN SelectSeq(cut, LAMBDA l : l.m) ELSE cut
        headers == IF H = NoIndex THEN Manual ELSE c.headers
        reader == DictReader(kept)
        same == [log_index |-> c.log_index, headers |-> c.headers, out |-> <<>>,
                 res |-> "ok"]
    IN  IF H > 0 /\ c.log_index + Len(lines) < H THEN same
        ELSE IF kept = <<>> THEN same
        ELSE IF headers # NoHeaders
        THEN [same EXCEPT !.log_index = @ + Len(kept),
                          !.out = [k \in DOMAIN reader.rows |->
                                       Record(reader.rows[k], headers,
                                              reader.fieldnames.text = "")]]
        ELSE IF reader.fieldnames.text = ""
        THEN [same EXCEPT !.log_index = @ + Len(kept), !.res = "RuntimeError"]
        ELSE [same EXCEPT !.log_index = @ + Len(kept),
                          !.headers = reader.fieldnames.n,
                          !.out = [k \in DOMAIN reader.rows |->
                                       Record(reader.rows[k], reader.fieldnames.n, FALSE)]]

\* a CSV parser in tail mode on a file: pos is how many lines of the file
\* have been handed to _parse_log, calls how many calls were made, out every
\* record returned so far
csv_new(H, pattern, file) ==
    /\ csv = NoCsv
    /\ csv' = [state |-> "open", header_line_index |-> H, pattern |-> pattern,
               file |-> file, pos |-> 0, calls |-> 0, log_index |-> 0,
               headers |-> NoHeaders, out |-> <<>>, res |-> ""]
    /\ UNCHANGED <<runvars, push, conf, wf, ping, mon>>

\* _parse_log on the next n lines of the file, newline telling whether the
\* chunk ends with a line break
parse_log(n, newline) ==
    LET lines == SubSeq(csv.file, csv.pos + 1, csv.pos + n)
                     \o (IF newline THEN <<EmptyLine>> ELSE <<>>)
        o == parse_log_out(csv, lines)
    IN  /\ csv.state = "open"
        /\ csv.res # "RuntimeError"
        /\ csv.pos + n <= Len(csv.file)
        /\ csv' = [csv EXCEPT !.pos = @ + n, !.calls = @ + 1,
                              !.log_index = o.log_index, !.headers = o.headers,
                              !.out = @ \o o.out, !.res = o.res]
        /\ UNCHANGED <<runvars, push, conf, wf, ping, mon>>

NextCsv ==
    \/ \E H \in HeaderIndexes, pattern \in BOOLEAN, N \in 1..MaxFile :
          \E file \in FilesOf(H, pattern, N) : csv_new(H, pattern, file)
    \/ \E n \in 1..MaxFile, newline \in BOOLEAN : parse_log(n, newline)

SpecCsv == Init /\ [][NextCsv]_vars

\* ---- 'simvue ping' (cli/__init__.py, ping_server)

\* --timeout: 0 stands for both 0 and the default None, which the loop's test
\* 'if timeout and ...' treats alike
Timeouts == 0..MaxTimeout

\* what a request for /version comes to: 200 with a version, 200 with JSON
\* holding no version, 200 with a body that is not JSON, another status, and
\* the request failing
Answers == {"version", "no version", "not json", "status", "ConnectionError", "Timeout"}

\* the local status_code: not assigned yet, None, or a status
Unbound == -1
NoneCode == 0
OkCode == 200
OtherCode == 503

\* get_server_version(): the version (a str), the status of a failed request
\* or None, or the exception it lets through
get_server_version(answer) ==
    CASE answer = "version" -> [raised |-> "", value |-> "str"]
      [] answer = "no version" -> [raised |-> "", value |-> "None"]
      [] answer = "status" -> [raised |-> "", value |-> "int"]
      [] answer = "not json" -> [raised |-> "JSONDecodeError", value |-> ""]
      [] OTHER -> [raised |-> answer, value |-> ""]

\* the body of one iteration after the test of the counter: the try block and
\* its handler.  line is what is printed, res the exception leaving the loop
ping_once(status_code, answer) ==
    LET v == get_server_version(answer)
        code == IF v.value = "str" THEN OkCode
                ELSE IF v.value = "int" THEN OtherCode ELSE NoneCode
    IN  IF v.raised = "JSONDecodeError"
        THEN [status_code |-> status_code, line |-> "", ok |-> FALSE, res |-> v.raised]
        ELSE IF v.raised # ""
        THEN IF status_code = Unbound
             THEN [status_code |-> status_code, line |-> "", ok |-> FALSE,
                   res |-> "UnboundLocalError"]
             ELSE [status_code |-> status_code, line |-> "error", ok |-> FALSE, res |-> ""]
        ELSE IF code # OkCode
        THEN [status_code |-> code, line |-> "error", ok |-> FALSE, res |-> ""]
        ELSE [status_code |-> code, line |-> "reply", ok |-> TRUE, res |-> ""]

\* the command starts: successful_pings = 0, counter = 0
ping_server(timeout) ==
    /\ ping = NoPing
    /\ ping' = [state |-> "loop", timeout |-> timeout, counter |-> 0,
                successful_pings |-> 0, status_code |-> Unbound, pings |-> 0,
                answer |-> "", line |-> "", res |-> ""]
    /\ UNCHANGED <<runvars, push, conf, wf, csv, mon>>

\* if timeout and counter > timeout: return
ping_return ==
    /\ ping.state = "loop"
    /\ ping.timeout # 0 /\ ping.counter > ping.timeout
    /\ ping' = [ping EXCEPT !.state = "done", !.res = "ok"]
    /\ UNCHANGED <<runvars, push, conf, wf, csv, mon>>

\* one iteration of 'while True' past the test: the request, the line printed,
\* time.sleep(1), counter += 1; pings counts the iterations, answer and line
\* are those of the last one
ping_iteration(answer) ==
    LET o == ping_once(ping.status_code, answer)
    IN  /\ ping.state = "loop"
        /\ ~(ping.timeout # 0 /\ ping.counter > ping.timeout)
        /\ ping.pings < MaxPings \/ ping.timeout # 0
        /\ ping' = IF o.res # ""
                   THEN [ping EXCEPT !.state = "done", !.res = o.res, !.pings = @ + 1,
                                     !.answer = answer, !.line = o.line]
                   ELSE [ping EXCEPT !.counter = @ + 1, !.pings = @ + 1,
                                     !.successful_pings = @ + (IF o.ok THEN 1 ELSE 0),
                                     !.status_code = o.status_code,
                                     !.answer = answer, !.line = o.line]
        /\ UNCHANGED <<runvars, push, conf, wf, csv, mon>>

\* KeyboardInterrupt inside 'with contextlib.suppress(KeyboardInterrupt)'
ping_interrupt ==
    /\ ping.state = "loop"
    /\ ping' = [ping EXCEPT !.state = "done", !.res = "interrupted"]
    /\ UNCHANGED <<runvars, push, conf, wf, csv, mon>>

NextPing ==
    \/ \E timeout \in Timeouts : ping_server(timeout)
    \/ ping_return
    \/ \E answer \in Answers : ping_iteration(answer)
    \/ ping_interrupt

SpecPing == Init /\ [][NextPing]_vars

\* the loop takes its next step unless interrupted: nothing in it waits
SpecPingFair ==
    SpecPing /\ WF_vars(ping_return \/ \E answer \in Answers : ping_iteration(answer))

\* ---------------------------------------------------------------------------
\* Properties.  `last` holds the operation that led to the current state: its
\* inputs, the state of its run before it (pre), the cache file as
\* reconciliation left it (recon) and the remote calls it issued.

\* the operations that pass through _check_run_exists
ReconOps == {"log_metrics", "log_event", "set_run_status", "update_metadata"}

\* the last operation reached _check_run_exists ('run close' and 'run abort'
\* reach it through set_run_status once get_run has found the run)
Reconciled ==
    \/ last.op \in ReconOps
    \/ last.op \in {"close_run", "abort_run"} /\ last.pre.status # "none"

StatusOps == {"set_run_status", "close_run", "abort_run"}

Terminal == {"completed", "failed", "lost", "terminated"}

NonTerminal == {"created", "running"}

\* C1: an operation that reconciles a run the service does not know fails with
\* the run-not-found error and leaves no cache file for that run on disk
C1_UnknownRunPurged ==
    (Reconciled /\ last.pre.status = "none")
        => /\ last.result = "RunNotFound"
           /\ cache[last.run] = NoFile
           /\ last.calls = <<>>

\* a stale cache file of a run that was removed from the service has just been
\* cleaned up by reconciliation
C1_Witness ==
    /\ Reconciled
    /\ last.pre.status = "none"
    /\ last.pre.cache.kind = "json"
    /\ last.result = "RunNotFound"
    /\ cache[last.run] = NoFile

\* C2: an operation that reconciles a run whose remote status is terminal fails
\* with the run-inactive error carrying that status, and leaves no cache file
C2_InactiveRunPurged ==
    (Reconciled /\ last.pre.status \in Terminal)
        => /\ last.result = "RunInactive"
           /\ last.detail = last.pre.status
           /\ cache[last.run] = NoFile

\* a run that another client ended while its cache file was on disk
C2_Witness ==
    /\ Reconciled
    /\ last.pre.status \in Terminal
    /\ last.pre.cache.kind = "json"
    /\ last.result = "RunInactive"
    /\ cache[last.run] = NoFile

\* C7: a call on a run whose remote status is terminal fails with the
\* run-inactive error, issues no remote update and leaves the status as it was
C7_TerminalAbsorbing ==
    (Reconciled /\ last.pre.status \in Terminal)
        => /\ last.result = "RunInactive"
           /\ last.calls = <<>>
           /\ status[last.run] = last.pre.status

\* set_run_status asked to move a lost run to another status
C7_Witness ==
    /\ last.op = "set_run_status"
    /\ last.pre.status = "lost"
    /\ last.status \in Statuses \ {"lost"}
    /\ last.result = "RunInactive"
    /\ status[last.run] = "lost"

\* the entry the claim C3 gives for recorded metrics ms at wall-clock time t
ClaimedEntry(ms, t) ==
    [kind |-> "json",
     step |-> IF ms = {} THEN 0
              ELSE CHOOSE x \in {m.step : m \in ms} : \A m \in ms : m.step <= x,
     start_time |-> IF ms = {} THEN t
                    ELSE CHOOSE x \in {m.time : m \in ms} : \A m \in ms : x <= m.time]

\* C3: reconciling an active run that has no cache file writes the entry
\* [step = max recorded step or 0, start_time = min recorded time or now], and a
\* log_metrics call then submits at that step
C3_SynthesizedEntry ==
    (Reconciled /\ last.pre.status \in NonTerminal
                          /\ last.pre.cache.kind = "absent")
        => /\ last.recon = ClaimedEntry(last.pre.metrics, now)
           /\ last.sample # <<>> => last.sample[1].step = last.recon.step

\* C3 where CACHE_DIRECTORY exists when the operation starts
C3_WithDirectory ==
    (Reconciled /\ last.pre.status \in NonTerminal
                          /\ last.pre.cache.kind = "absent" /\ last.pre.dir)
        => /\ last.recon = ClaimedEntry(last.pre.metrics, now)
           /\ last.sample # <<>> => last.sample[1].step = last.recon.step

\* C4: N log_metrics calls in a row on an active run that had no recorded
\* metrics all succeed, submit the steps 0, ..., N-1 in order and leave the
\* cached step at N
C4_SequentialSteps ==
    streak.run # 0
        => /\ ~streak.failed
           /\ streak.steps = [i \in 1..Len(streak.steps) |-> i - 1]
           /\ cache[streak.run] = [cache[streak.run] EXCEPT
                                     !.kind = "json", !.step = Len(streak.steps)]

\* C4 for the runs of calls none of which raised
C4_WhenNoCallRaises ==
    (streak.run # 0 /\ ~streak.failed)
        => /\ streak.steps = [i \in 1..Len(streak.steps) |-> i - 1]
           /\ cache[streak.run] = [cache[streak.run] EXCEPT
                                     !.kind = "json", !.step = Len(streak.steps)]

\* C5: every step log_metrics submits is strictly greater than every step
\* already recorded for the run
C5_StepAboveRecorded ==
    (last.op = "log_metrics" /\ last.sample # <<>>)
        => \A m \in last.pre.metrics : last.sample[1].step > m.step

\* C5 with "not below" for "strictly greater"
C5_StepNotBelowRecorded ==
    (last.op = "log_metrics" /\ last.sample # <<>>)
        => \A m \in last.pre.metrics : last.sample[1].step >= m.step

\* C6: a run has a cache file exactly when the last status this CLI observed
\* or set for it is non-terminal
C6_CacheIffBelievedActive ==
    \A r \in RunIds : cache[r].kind # "absent" <=> seen[r] \in NonTerminal

NonEmpty(reason) == reason # <<>> /\ reason # <<"">>

\* C9 as stated: a set_run_status call that returns issued exactly one remote
\* update, the abort call exactly when the requested status is "terminated"
\* and a non-empty reason was given, and the run is in the requested status
C9_OneRemoteUpdate ==
    (last.op \in StatusOps /\ last.result = "ok")
        => /\ Len(last.calls) = 1
           /\ last.calls[1] = "abort"
                  <=> (last.status = "terminated" /\ NonEmpty(last.reason))
           /\ status[last.run] = last.status

\* C9 as amended: the abort call is issued exactly when the requested status
\* is "terminated" and a non-empty reason was given, the status is set
\* directly in every call (after the abort call when there is one), and a call
\* that returns leaves the run in the requested status
C9_AbortThenStatus ==
    last.op \in StatusOps
        => LET withReason == last.status = "terminated" /\ NonEmpty(last.reason)
           IN  /\ last.result = "ok"
                     => /\ last.calls = IF withReason THEN <<"abort", "status">>
                                        ELSE <<"status">>
                        /\ status[last.run] = last.status
               /\ ~withReason => \A i \in 1..Len(last.calls) : last.calls[i] # "abort"
               /\ (withReason /\ last.calls # <<>>) => last.calls[1] = "abort"

\* an abort with a reason has issued the abort call and then set the status
C9_Witness ==
    /\ last.op \in StatusOps
    /\ last.status = "terminated"
    /\ NonEmpty(last.reason)
    /\ last.result = "ok"
    /\ last.calls = <<"abort", "status">>
    /\ status[last.run] = "terminated"

\* C10: log_metrics submits one sample at the cached step that reconciliation
\* returned and then stores that step plus one; when the submission fails the
\* cache entry stays as reconciliation returned it
C10_IncrementAfterCommit ==
    last.op = "log_metrics"
        => /\ (last.result \in {"ok", "RemoteError"} /\ last.pre.cache.kind # "absent")
                 => last.recon = last.pre.cache
           /\ last.result = "ok"
                 => /\ Len(last.sample) = 1
                    /\ last.sample[1].step = last.recon.step
                    /\ metrics[last.run] = last.pre.metrics \cup {last.sample[1]}
                    /\ last.calls = <<"metrics">>
                    /\ cache[last.run] = [last.recon EXCEPT !.step = @ + 1]
           /\ last.result # "ok"
                 => /\ last.sample = <<>>
                    /\ metrics[last.run] = last.pre.metrics
                    /\ cache[last.run] = last.recon

\* a submission failed after an earlier one had moved the cached step to 1
C10_Witness ==
    /\ last.op = "log_metrics"
    /\ last.result = "RemoteError"
    /\ last.pre.cache.kind = "json"
    /\ last.pre.cache.step = 1
    /\ cache[last.run].step = 1

\* C11: when reconciliation fails with run-not-found or run-inactive, the
\* action has made no mutating call to the service, and the run's remote
\* status and metrics are as they were
C11_NoCallAfterFailedReconcile ==
    (Reconciled /\ last.result \in {"RunNotFound", "RunInactive"})
        => /\ last.calls = <<>>
           /\ last.sample = <<>>
           /\ status[last.run] = last.pre.status
           /\ metrics[last.run] = last.pre.metrics

\* update_metadata on a run another client has ended
C11_Witness ==
    /\ last.op = "update_metadata"
    /\ last.pre.status \in Terminal
    /\ last.result = "RunInactive"
    /\ last.calls = <<>>

\* C12: an action on an active run whose cache file is missing (removed by
\* hand, or with the whole cache directory, or by 'purge') re-creates the
\* cache entry and gets through reconciliation without error
C12_CacheRecreated ==
    (Reconciled /\ last.pre.status \in NonTerminal /\ last.pre.cache.kind = "absent")
        => /\ last.result \in {"ok", "RemoteError"}
           /\ last.recon.kind = "json"

\* C12 where only the file is missing and CACHE_DIRECTORY is still there
C12_FileOnly ==
    (Reconciled /\ last.pre.status \in NonTerminal /\ last.pre.cache.kind = "absent"
                /\ last.pre.dir)
        => /\ last.result \in {"ok", "RemoteError"}
           /\ last.recon.kind = "json"

\* C13: an action on an active run whose cache file is unparsable treats the
\* file as absent: it re-synthesizes the entry from the recorded metrics and
\* does not fail on the file
C13_CorruptTreatedAsAbsent ==
    (Reconciled /\ last.pre.status \in NonTerminal /\ last.pre.cache.kind = "corrupt")
        => /\ last.result \in {"ok", "RemoteError"}
           /\ last.recon = synth_entry(last.pre.metrics, now)

\* C13 for log_metrics alone, and only "does not fail on the file"
C13_LogMetricsSurvivesCorrupt ==
    (last.op = "log_metrics" /\ last.pre.status \in NonTerminal
                             /\ last.pre.cache.kind = "corrupt")
        => last.result \in {"ok", "RemoteError"}

\* C14: no deletion of a cache file raises: neither the one in reconciliation
\* nor the one that ends set_run_status, whether or not the file is still there
C14_DeletionNeverRaises ==
    \A p \in Procs :
        (procs[p].pc = "done" /\ procs[p].at \in {"check", "unlink"})
            => procs[p].res # "FileNotFoundError"

\* C14 for the deletions made in reconciliation
C14_ReconcileDeletionNeverRaises ==
    \A p \in Procs :
        (procs[p].pc = "done" /\ procs[p].at = "check")
            => procs[p].res \in {"RunNotFound", "RunInactive", "killed"}

\* two log_metrics processes on one run that both loaded the cache file
\* before either of them wrote it back
SameStepRead(p, q) ==
    /\ p # q
    /\ procs[p].op = "log_metrics" /\ procs[q].op = "log_metrics"
    /\ procs[p].run = procs[q].run
    /\ procs[p].res = "ok" /\ procs[q].res = "ok"
    /\ procs[p].run_data = procs[q].run_data

\* C15: when two concurrent log_metrics processes have read the same cached
\* step and both have finished, each has submitted its metric at that step and
\* the cached step is that step plus one, not plus two
C15_DuplicateStep ==
    \A p, q \in Procs :
        SameStepRead(p, q)
            => /\ procs[p].sent = <<procs[p].run_data.step>>
               /\ procs[q].sent = <<procs[p].run_data.step>>
               /\ cache[procs[p].run] = Entry(procs[p].run_data.step + 1,
                                              procs[p].run_data.start_time)

\* nothing prevents the interleaving: after one earlier log_metrics, two
\* processes both read step 1, both submitted at step 1, and the cache is at 2
C15_Witness ==
    /\ SameStepRead(1, 2)
    /\ procs[1].run_data.step = 1
    /\ procs[1].sent = <<1>> /\ procs[2].sent = <<1>>
    /\ cache[procs[1].run].step = 2

\* C16: create_simvue_run that returns has created the run as "running" when
\* the flag is set and as "created" otherwise, and has then written the entry
\* [step 0, start_time now] in an existing CACHE_DIRECTORY; when the remote
\* commit fails nothing is written; log_metrics on the fresh entry leaves step 1
C16_CreateThenCache ==
    /\ (last.op = "create_simvue_run" /\ last.result = "ok" /\ last.run # 0)
          => /\ status[last.run] = (IF last.running THEN "running" ELSE "created")
             /\ last.calls = <<"create">>
             /\ cacheDir
             /\ cache[last.run] = Entry(0, now)
    /\ (last.op = "create_simvue_run" /\ last.result = "RemoteError")
          => /\ cacheDir = last.pre.dir
             /\ status[nextId] = "none"
             /\ cache[nextId] = NoFile
    /\ (last.op = "log_metrics" /\ last.result = "ok" /\ last.pre.cache.kind = "json"
                                /\ last.pre.cache.step = 0)
          => cache[last.run] = Entry(1, last.pre.cache.start_time)

\* a run created as "running" at a time after 0 with no cache directory before
C16_Witness ==
    /\ last.op = "create_simvue_run"
    /\ last.running
    /\ last.result = "ok"
    /\ ~last.pre.dir
    /\ now > 0
    /\ cache[last.run] = Entry(0, now)

\* C17: every sample log_metrics submits carries the wall-clock time of the
\* submission minus the wall-clock time at which the run's timing began, also
\* after the cache entry was lost and synthesized again
C17_FixedZeroPoint ==
    (last.op = "log_metrics" /\ last.result = "ok")
        => last.sample[1].time = now - began[last.run]

\* C18: log_event and update_metadata that got through reconciliation on a
\* run with a cache entry leave the entry's step and start_time as they were,
\* whether their remote call then succeeded or failed
C18_EntryUntouched ==
    (last.op \in {"log_event", "update_metadata"} /\ last.pre.cache.kind = "json"
                                                  /\ last.result \in {"ok", "RemoteError"})
        => /\ cache[last.run] = last.pre.cache
           /\ last.recon = last.pre.cache

\* log_event succeeded on a run whose cache was at step 1
C18_Witness ==
    /\ last.op = "log_event"
    /\ last.result = "ok"
    /\ last.calls = <<"events">>
    /\ last.pre.cache.kind = "json"
    /\ last.pre.cache.step = 1
    /\ cache[last.run] = last.pre.cache

\* C19: a log_metrics process killed at any point (no other process running)
\* leaves the cache file as the entry it found or as that entry with the step
\* advanced by one, never empty or partly written
C19_InterruptLeavesEntry ==
    \A p, q \in Procs :
        (p # q /\ procs[q].pc = "idle" /\ procs[p].op = "log_metrics"
               /\ procs[p].res = "killed" /\ procs[p].before.kind = "json")
            => cache[procs[p].run] \in
                   {procs[p].before,
                    Entry(procs[p].before.step + 1, procs[p].before.start_time)}

\* C19 for a kill anywhere before the file is opened for writing
C19_KilledBeforeOpen ==
    \A p, q \in Procs :
        (p # q /\ procs[q].pc = "idle" /\ procs[p].op = "log_metrics"
               /\ procs[p].res = "killed" /\ procs[p].before.kind = "json"
               /\ procs[p].at # "dump")
            => cache[procs[p].run] = procs[p].before

\* the arguments of the last 'run remove' that name no run at their turn
Missing(i) ==
    \/ last.ids[i] \notin RunIds
    \/ last.was[last.ids[i]] = "none"
    \/ \E j \in 1..(i - 1) : j \notin last.keep /\ last.ids[j] = last.ids[i]

\* C20: 'run close' and 'run abort' exit non-zero, leaving the run as it was,
\* when the run does not exist or is terminal, and exit 0 only when the run was
\* active and now has the requested status; 'run remove' exits non-zero at the
\* first identifier that is not found, with the confirmed identifiers before it
\* removed and the ones after it left as they were, and exits 0 only when
\* every confirmed identifier was removed
C20_ExitCodes ==
    LET code == exit_code(last.op, last.result)
    IN  /\ last.op \in {"close_run", "abort_run"} =>
              /\ last.pre.status \in TerminalStatuses \cup {"none"} =>
                     code # 0 /\ status[last.run] = last.pre.status
              /\ code = 0 =>
                     /\ last.pre.status \in ActiveStatuses
                     /\ status[last.run] = last.status
        /\ last.op = "run_remove" =>
              /\ (\E i \in DOMAIN last.ids : Missing(i)) => code # 0
              /\ last.result = "NotFound" =>
                     /\ code # 0
                     /\ Missing(last.at)
                     /\ \A j \in 1..(last.at - 1) :
                            ~Missing(j) /\ (j \notin last.keep => status[last.ids[j]] = "none")
                     /\ \A r \in RunIds :
                            (\A j \in 1..(last.at - 1) : j \in last.keep \/ last.ids[j] # r)
                                => status[r] = last.was[r]
              /\ code = 0 =>
                     \A i \in DOMAIN last.ids :
                         i \notin last.keep => status[last.ids[i]] = "none"

\* 'run close' refused a terminal run
C20_Witness ==
    /\ last.op = "close_run"
    /\ last.pre.status \in TerminalStatuses
    /\ last.result = "RunInactive"

\* 'run remove' removed its first identifier and stopped at the second
C20_RemoveStopped ==
    /\ last.op = "run_remove"
    /\ last.result = "NotFound"
    /\ last.at = 2
    /\ last.gone # {}

\* 'run remove' stopped at its first identifier, an existing run after it
C20_RemoveStoppedFirst ==
    /\ last.op = "run_remove"
    /\ last.at = 1
    /\ Len(last.ids) = 2
    /\ last.ids[2] \in RunIds
    /\ status[last.ids[2]] # "none"

\* 'run abort' refused a terminal run
C20_AbortRefused ==
    /\ last.op = "abort_run"
    /\ last.pre.status \in TerminalStatuses
    /\ last.result = "RunInactive"

\* C21: a push that returns has created one run per add_run call, in call
\* order and in chunks of at most the limit, and the run created from the k-th
\* entry holds exactly the metrics given to the k-th add_run call
C21_OneRunPerEntry ==
    (push.state = "open" /\ push.pushes > 0 /\ push.res = "ok") =>
        /\ Len(push.created) = Len(push.data)
        /\ \A k \in DOMAIN push.data :
              /\ push.created[k] = Len(push.remote) - Len(push.data) + k
              /\ push.remote[push.created[k]].entry = push.data[k]
              /\ push.data[k].call = k
              /\ push.remote[push.created[k]].metrics = MetricSets(push.given[k])
        /\ \A b \in DOMAIN push.batches : push.batches[b] \in 1..push.limit

\* a push of three entries in two chunks, the third entry with metrics
C21_Witness ==
    /\ push.state = "open"
    /\ push.res = "ok"
    /\ Len(push.data) = 3
    /\ push.limit = 2
    /\ Len(push.batches) = 2
    /\ push.given[3] # <<>>
    /\ push.given[1] = <<>>

\* C22: after 'purge' neither ~/.simvue (with every cache entry) nor
\* ~/.simvue.toml exists, the command exits 0, and it reports "Nothing to do."
\* exactly when neither existed before
C22_PurgeRemovesBoth ==
    last.op = "purge" =>
        /\ ~DotDir
        /\ \A r \in RunIds : cache[r] = NoFile
        /\ conf.global = NoToml
        /\ exit_code(last.op, last.result) = 0
        /\ (last.detail = "Nothing to do.")
              <=> (~last.home.dotdir /\ last.home.global = NoToml)

\* 'purge' found the global file and no directory
C22_Witness ==
    /\ last.op = "purge"
    /\ ~last.home.dotdir
    /\ last.home.global # NoToml

\* 'purge' found the directory with a cache entry in it, and no global file
C22_DirectoryOnly ==
    /\ last.op = "purge"
    /\ last.home.dotdir
    /\ last.home.global = NoToml
    /\ last.pre.cache = NoFile
    /\ nextId \notin RunIds

\* 'purge' found nothing
C22_NothingToDo ==
    /\ last.op = "purge"
    /\ last.detail = "Nothing to do."

\* the contents of a configuration file, {} when it does not exist
Loaded(f) == IF f.kind = "toml" THEN f.data ELSE EmptyConfig

\* C23: set_configuration_option that returns has written the chosen file
\* (the global one for local=False, the first one found otherwise) with
\* config[section][key] = value and every other section and key as before,
\* and has left the other file alone; with local=True and only the global
\* file found it raises ValueError and both files stay as they were
C23_OptionSetFrameKept ==
    last.op = "set_configuration_option" =>
        LET section == last.opt[1]
            key == last.opt[2]
            value == last.opt[3]
            local == last.opt[4]
            before == last.home
        IN  /\ last.result = "ok" =>
                  LET now_file == IF last.file = "local" THEN conf.local ELSE conf.global
                      old_file == IF last.file = "local" THEN before.local ELSE before.global
                  IN  /\ last.file \in {"local", "global"}
                      /\ local = "false" => last.file = "global"
                      /\ (local # "false" /\ before.local.kind = "toml")
                            => last.file = "local"
                      /\ now_file.kind = "toml"
                      /\ now_file.data[section][key] = value
                      /\ \A s \in Sections, k \in Keys :
                            <<s, k>> # <<section, key>>
                                => now_file.data[s][k] = Loaded(old_file)[s][k]
                      /\ last.file = "local" => conf.global = before.global
                      /\ last.file = "global" => conf.local = before.local
            /\ (local = "true" /\ before.local.kind = "absent"
                               /\ before.global.kind = "toml") =>
                  /\ last.result = "ValueError"
                  /\ conf.global = before.global
                  /\ conf.local = before.local

\* an option set in a file that already held another key of the same section
\* and a key of another section
C23_Witness ==
    /\ last.op = "set_configuration_option"
    /\ last.result = "ok"
    /\ last.file = "global"
    /\ last.opt[1] = "server"
    /\ last.opt[2] = "url"
    /\ last.home.global.kind = "toml"
    /\ last.home.global.data["server"]["token"] # ""
    /\ last.home.global.data["run"]["url"] # ""
    /\ last.home.global.data["server"]["url"] = ""

\* local=True refused with only the global file present
C23_LocalRefused ==
    /\ last.op = "set_configuration_option"
    /\ last.result = "ValueError"
    /\ last.home.global.kind = "toml"

\* the events of the session's log of one kind
Events(ev) == {n \in DOMAIN wf.log : wf.log[n].ev = ev}

\* the steps play has handed to its caller
Yielded == {wf.log[n].step : n \in Events("yield") \cup Events("skip")}

\* the steps run in configuration order, one at a time: the log never goes back
\* to an earlier step and a process is started only when every process started
\* before it has ended
InOrderOneAtATime ==
    /\ \A a, b \in DOMAIN wf.log : a < b => wf.log[a].step <= wf.log[b].step
    /\ \A n \in Events("spawn") :
          \A m \in Events("spawn") :
              m < n => \E x \in Events("exit") : m < x /\ x < n /\ wf.log[x].step = wf.log[m].step

\* C24 as stated: the steps run in order, one at a time, and every plain
\* command play yields has return code 0
C24_YieldedPlainHasZero ==
    wf.state = "play" =>
        /\ InOrderOneAtATime
        /\ \A k \in Yielded : wf.steps[k].kind = "plain" => wf.code[k] = 0

\* C24: the steps run in order, one at a time; a plain command play yields
\* either ran and ended with return code 0 or was completed already and was
\* not run, its return code unset; one that ended non-zero is never yielded
C24_YieldedPlainRanToZero ==
    wf.state = "play" =>
        /\ InOrderOneAtATime
        /\ \A k \in Yielded :
              wf.steps[k].kind = "plain" =>
                  \/ wf.code[k] = 0 /\ \E n \in Events("exit") : wf.log[n].step = k
                  \/ /\ wf.code[k] = NoCode
                     /\ \E n \in Events("skip") : wf.log[n].step = k
                     /\ \A n \in Events("spawn") : wf.log[n].step # k

\* two plain commands run one after the other and both yielded
C24_Witness ==
    /\ wf.state = "play"
    /\ wf.res = "finished"
    /\ Len(wf.steps) = 2
    /\ \A k \in 1..2 : wf.steps[k].kind = "plain" /\ wf.code[k] = 0

\* a plain command that failed ended the session unyielded
C24_FailedNotYielded ==
    /\ wf.state = "play"
    /\ wf.res = "SessionAbort"
    /\ wf.i = 1
    /\ Len(wf.steps) = 2

\* C25: once a step of either kind has ended with a non-zero return code, no
\* later step is executed
C25_NonZeroStops ==
    wf.state = "play" =>
        \A k \in DOMAIN wf.steps :
            wf.code[k] \notin {NoCode, 0} =>
                \A n \in Events("spawn") : wf.log[n].step <= k

\* C25 for plain commands only
C25_PlainNonZeroStops ==
    wf.state = "play" =>
        \A k \in DOMAIN wf.steps :
            (wf.steps[k].kind = "plain" /\ wf.code[k] \notin {NoCode, 0}) =>
                /\ wf.res = "SessionAbort"
                /\ wf.i = k
                /\ \A n \in DOMAIN wf.log : wf.log[n].step <= k

\* C26: _execute starts no process for a step whose declared inputs and outputs
\* all exist and returns it with its return code as it was; it raises
\* RuntimeError, starting no process, for a step with a declared input
\* missing; a step without inputs is always executed
C26_SkipRaiseOrExecute ==
    wf.state = "play" =>
        \A n \in DOMAIN wf.log :
            LET e == wf.log[n]
            IN  e.ev \in {"skip", "raise", "spawn", "nospawn"} =>
                  /\ e.code = NoCode
                  /\ (e.inputs = "present" /\ e.outputs # "missing")
                        => e.ev = "skip" /\ wf.code[e.step] = NoCode
                  /\ e.inputs = "missing" => e.ev = "raise"
                  /\ e.inputs = "none" => e.ev \in {"spawn", "nospawn"}
                  /\ e.ev \in {"skip", "raise"} =>
                        \A m \in Events("spawn") : wf.log[m].step # e.step

\* a completed step was passed over and the step after it, without inputs, run
C26_Witness ==
    /\ wf.state = "play"
    /\ Len(wf.log) >= 2
    /\ wf.log[1].ev = "skip"
    /\ wf.log[2].ev = "spawn"
    /\ wf.log[2].inputs = "none"

\* a step with a missing input ended the session with RuntimeError
C26_MissingInputRaised ==
    /\ wf.state = "play"
    /\ wf.res = "RuntimeError"
    /\ wf.i = 2

\* C27: once 'monitor' has exited after creating its run, the run is in a
\* terminal status (completed after end of input, terminated after an
\* interrupt) and its cache file is gone
C27_ExitLeavesRunClosed ==
    (mon.state = "exited" /\ mon.how # "nocreate") =>
        /\ status[mon.run] \in TerminalStatuses
        /\ cache[mon.run] = NoFile

\* C27 for end of input and interrupt, when set_run_status returns
C27_EofOrInterruptCloses ==
    (mon.state = "exited" /\ mon.how \in {"eof", "interrupt"} /\ mon.res = "ok"
                          /\ last.op = "set_run_status") =>
        /\ status[mon.run] = (IF mon.how = "eof" THEN "completed" ELSE "terminated")
        /\ cache[mon.run] = NoFile

\* a set_run_status to a terminal status and a log_metrics on the same run
\* that have both finished, with the service having answered every call
BothFinished(p, q) ==
    /\ procs[p].op = "set_run_status" /\ procs[p].s \in TerminalStatuses
    /\ procs[q].op = "log_metrics" /\ procs[q].run = procs[p].run
    /\ procs[p].pc = "done" /\ procs[q].pc = "done"
    /\ {procs[p].res, procs[q].res} \cap {"killed", "RemoteError"} = {}

\* C28: when set_run_status to a terminal status and log_metrics on the same
\* run have both finished, however they interleaved, no cache file of the run
\* is on disk, no sample was submitted after the status became terminal, and
\* neither ended with an error other than run-inactive or run-not-found
C28_InterleavingClean ==
    \A p, q \in Procs :
        BothFinished(p, q)
            => /\ cache[procs[p].run] = NoFile
               /\ ~procs[q].late
               /\ {procs[p].res, procs[q].res} \subseteq {"ok", "RunInactive", "RunNotFound"}

\* C28, the errors alone
C28_NoOtherError ==
    \A p, q \in Procs :
        BothFinished(p, q)
            => {procs[p].res, procs[q].res} \subseteq {"ok", "RunInactive", "RunNotFound"}

\* C28, the cache file alone, when both calls returned
C28_NoFileLeft ==
    \A p, q \in Procs :
        (BothFinished(p, q) /\ procs[p].res = "ok" /\ procs[q].res = "ok")
            => cache[procs[p].run] = NoFile

\* C28, the late sample alone
C28_NoLateSample ==
    \A p, q \in Procs : BothFinished(p, q) => ~procs[q].late

\* the lines handed to _parse_log so far that are data lines matching the
\* pattern
DataLinesGiven ==
    {i \in 1..csv.pos : csv.file[i].text = "data" /\ (csv.pattern => csv.file[i].m)}

\* the records returned so far for the line at position i of the file
RecordsOf(i) == {k \in DOMAIN csv.out : csv.out[k].line = csv.file[i].n}

\* the headers the records are to be keyed by
HeadersOf == IF csv.header_line_index = NoIndex THEN Manual ELSE csv.header_line_index

\* C29: over any sequence of _parse_log calls on consecutive chunks of a
\* file, every data line handed over that matches the pattern has yielded
\* exactly one record, keyed by the headers
C29_NoDataLineLost ==
    (csv.state = "open" /\ csv.res = "ok")
        => \A i \in DataLinesGiven :
               /\ Cardinality(RecordsOf(i)) = 1
               /\ \A k \in RecordsOf(i) : csv.out[k].keys = HeadersOf /\ ~csv.out[k].whole

\* C29, for a file with a header line handed over in one chunk, the pattern,
\* if any, matching the header
C29_OneChunkNoLineLost ==
    (/\ csv.state = "open" /\ csv.res = "ok" /\ csv.calls = 1
     /\ csv.header_line_index \in 0..MaxHeaderIndex
     /\ csv.pos = Len(csv.file) /\ csv.pos > csv.header_line_index
     /\ csv.file[csv.header_line_index + 1].m)
        => \A i \in DataLinesGiven :
               /\ Cardinality(RecordsOf(i)) = 1
               /\ \A k \in RecordsOf(i) : csv.out[k].keys = HeadersOf /\ ~csv.out[k].whole

\* C29: no line yields more than one record
C29_NoRecordTwice ==
    csv.state = "open" => \A i \in 1..csv.pos : Cardinality(RecordsOf(i)) <= 1

\* C29, the first line of a later chunk: it yields no record
C29_SecondChunkKeepsFirstLine ==
    (/\ csv.state = "open" /\ csv.res = "ok" /\ csv.calls = 2
     /\ csv.header_line_index = 0 /\ ~csv.pattern /\ csv.pos = Len(csv.file))
        => \A i \in DataLinesGiven : RecordsOf(i) # {}

\* the answers that make a ping fail
FailedAnswers == Answers \ {"version"}

\* the exceptions that end 'ping'
PingExceptions == {"UnboundLocalError", "JSONDecodeError"}

\* C30: 'ping --timeout n' with n >= 1 makes at most n + 1 iterations, and
\* whatever the server answers a failed ping is printed as an error line and
\* the loop goes on, the command never ending with an exception; without a
\* timeout the loop ends only when interrupted
C30_PingBoundedAndGoesOn ==
    ping.state # "off"
        => /\ ping.timeout >= 1 => ping.pings <= ping.timeout + 1
           /\ ping.res \notin PingExceptions
           /\ (ping.answer \in FailedAnswers /\ ping.res \in {"", "ok"})
                  => ping.line = "error"
           /\ (ping.state = "done" /\ ping.timeout = 0) => ping.res = "interrupted"

\* C30, the number of iterations alone
C30_AtMostNPlusOne ==
    (ping.state # "off" /\ ping.timeout >= 1) => ping.pings <= ping.timeout + 1

\* C30, a request that fails before any request was answered
C30_FirstRequestFails ==
    (ping.state # "off" /\ ping.pings = 1
     /\ ping.answer \in {"ConnectionError", "Timeout"})
        => ping.res = "" /\ ping.line = "error"

\* C30, a status other than 200: an error line, and the loop goes on
C30_OtherStatusGoesOn ==
    (ping.state = "loop" /\ ping.answer \in {"status", "no version"})
        => ping.line = "error" /\ ping.res = ""

\* C30, without a timeout: only an interrupt or an exception ends the loop
C30_NoTimeoutRunsOn ==
    (ping.state = "done" /\ ping.timeout = 0)
        => ping.res \in {"interrupted"} \cup PingExceptions

\* C30, with a timeout the command comes to an end
C30_Terminates ==
    (ping.state = "loop" /\ ping.timeout >= 1) ~> ping.state = "done"

====
